---- MODULE Spec2Model ----
(***************************************************************************)
(* The sharded in-memory cache of Gobd/go-cache (src/unnamed/part_002):    *)
(* a table of independently locked shards, each a map from a key's 64-bit  *)
(* hash to an item (value, absolute expiration), the operations on it, and *)
(* the janitor goroutine that sweeps expired items.                        *)
(*                                                                         *)
(* A goroutine's call is modelled at the grain of the shard locks: the     *)
(* call (whatever it computes before its first lock), the acquisition of a *)
(* lock (which may block), and the critical section up to the unlock.      *)
(***************************************************************************)
EXTENDS Integers, Sequences, FiniteSets, TLC

(***************************************************************************)
(* Bounds.  Machine words are scaled from 64 bits to Bits bits, the shard  *)
(* table from 256 shards to numShards; the clock runs to MaxTime and the   *)
(* goroutines make MaxCalls calls between them.                            *)
(***************************************************************************)
Bits == 4

numShards == 2

MaxTime == 3

NumThreads == 2

MaxCalls == 3

(* Program constants. *)
NoExpiration == -1

DefaultExpiration == 0

Mod == 2 ^ Bits

(* uint64(n): conversion of an integer to the unsigned word. *)
ToUint64(n) == n % Mod

(* Two's-complement wrap of a signed-word result (int64 arithmetic). *)
ToInt64(n) == ((n + (Mod \div 2)) % Mod) - (Mod \div 2)

(* Values: the n-th call stores the value n, so every write is told apart. *)
Nil == 0

Threads == 1 .. NumThreads

Janitor == 0

Procs == Threads \cup {Janitor}

Shards == 0 .. (numShards - 1)

(***************************************************************************)
(* Keys: a dynamic type and a value.  Strings and byte slices are          *)
(* sequences of bytes.                                                     *)
(***************************************************************************)
Key(ty, v) == [type |-> ty, val |-> v]

NoKey == Key("none", 0)

(* The keys a run draws from: one key of every supported type over the     *)
(* universes, and in each universe two keys that hash alike.               *)
FewKeys == { Key("uint64", 2), Key("int", 2), Key("int32", -1) }

Universes ==
    { FewKeys,
      { Key("string", <<1>>), Key("bytes", <<1>>), Key("int64", -1) },
      { Key("byte", 1), Key("string", <<1>>), Key("uint32", 3) } }

(***************************************************************************)
(* runtime.memhash is outside the repository: a deterministic function of  *)
(* the bytes and of a key drawn once per process.  The stand-in folds the  *)
(* bytes into the process's hash key.                                      *)
(***************************************************************************)
RECURSIVE memhash(_, _)
memhash(bytes, h) ==
    IF bytes = << >> THEN h
    ELSE memhash(Tail(bytes), (h * 3 + Head(bytes) + 1) % Mod)

memHash(data, hk) == memhash(data, hk)

memHashString(str, hk) == memhash(str, hk)

(***************************************************************************)
(* The integer key types and their values.  int and int64 have the width   *)
(* of the hash; int32 and uint32 have half of it.                          *)
(***************************************************************************)
Bits32 == Bits \div 2

Width(ty) == IF ty \in {"int32", "uint32"} THEN Bits32 ELSE Bits

Signed(ty) == ty \in {"int", "int32", "int64"}

ValuesOf(ty) ==
    IF Signed(ty)
    THEN (0 - 2 ^ (Width(ty) - 1)) .. (2 ^ (Width(ty) - 1) - 1)
    ELSE 0 .. (2 ^ Width(ty) - 1)

IntegerTypes == {"uint64", "int", "int32", "uint32", "int64"}

IntegerKeys == UNION { { Key(ty, v) : v \in ValuesOf(ty) } : ty \in IntegerTypes }

(* default: panic("Key type not supported"): the call returns no hash. *)
Panic == -1

(* A default case that coerces the key to a hash instead. *)
keyToHashCoerced(k, hk) ==
    CASE k.type = "uint64" -> k.val
      [] k.type = "string" -> memHashString(k.val, hk)
      [] k.type = "bytes"  -> memHash(k.val, hk)
      [] k.type = "byte"   -> memHash(<<k.val>>, hk)
      [] k.type \in {"int", "int32", "uint32", "int64"} -> ToUint64(k.val)
      [] OTHER -> 0

(* A conversion that takes the key's own bits and fills with zeros. *)
keyToHashZeroExtended(k, hk) ==
    CASE k.type = "uint64" -> k.val
      [] k.type = "string" -> memHashString(k.val, hk)
      [] k.type = "bytes"  -> memHash(k.val, hk)
      [] k.type = "byte"   -> memHash(<<k.val>>, hk)
      [] k.type \in {"int", "int32", "uint32", "int64"} -> k.val % (2 ^ Width(k.type))

keyToHash(k, hk) ==
    CASE k.type = "uint64" -> k.val
      [] k.type = "string" -> memHashString(k.val, hk)
      [] k.type = "bytes"  -> memHash(k.val, hk)
      [] k.type = "byte"   -> memHash(<<k.val>>, hk)
      [] k.type = "int"    -> ToUint64(k.val)
      [] k.type = "int32"  -> ToUint64(k.val)
      [] k.type = "uint32" -> ToUint64(k.val)
      [] k.type = "int64"  -> ToUint64(k.val)
      [] OTHER -> Panic

(* idx := key % numShards *)
ShardOfHigh(key) == (key \div numShards) % numShards

ShardOf(key) == key % numShards

(***************************************************************************)
(* Go maps as functions with a finite domain.                              *)
(***************************************************************************)
EmptyMap == << >>

Put(m, key, it) ==
    [h \in (DOMAIN m) \cup {key} |-> IF h = key THEN it ELSE m[h]]

Del(m, key) == [h \in (DOMAIN m) \ {key} |-> m[h]]

Item(x, e) == [Object |-> x, Expiration |-> e]

(***************************************************************************)
(* The expiration Set and set compute from the duration: the default       *)
(* replaces DefaultExpiration, and only a positive duration expires.       *)
(***************************************************************************)
SetExpirationNoSentinel(d, de, now) ==
    LET d1 == IF d = DefaultExpiration THEN de ELSE d
    IN  ToInt64(now + d1)

SetExpirationNoDefault(d, de, now) ==
    IF d > 0 THEN ToInt64(now + d) ELSE 0

SetExpiration(d, de, now) ==
    LET d1 == IF d = DefaultExpiration THEN de ELSE d
    IN  IF d1 > 0 THEN ToInt64(now + d1) ELSE 0

(* The inlined Expired of Get and get. *)
GetExpiredOff(it, now) == it.Expiration > 0 /\ now >= it.Expiration

GetExpired(it, now) == it.Expiration > 0 /\ now > it.Expiration

(* The inlined Expired of DeleteExpired. *)
SweepExpiredNoGuard(it, now) == now > it.Expiration

(* A comparison that takes the entry for expired at its expiration. *)
SweepExpiredInclusive(it, now) == it.Expiration > 0 /\ now >= it.Expiration

(* A comparison that lets an entry outlive its expiration by one tick. *)
SweepExpiredLate(it, now) == it.Expiration > 0 /\ now > it.Expiration + 1

(* The inlined expired of DeleteExpired. *)
SweepExpired(it, now) == it.Expiration > 0 /\ now > it.Expiration

(***************************************************************************)
(* sync.RWMutex: w is the goroutine holding the exclusive lock (or None),  *)
(* r the goroutines holding the shared lock.                               *)
(***************************************************************************)
None == -1

Unlocked == [w |-> None, r |-> {}]

CanLockAlways(m) == TRUE

CanLockIgnoringReaders(m) == m.w = None

CanLock(m) == m.w = None /\ m.r = {}

CanRLock(m) == m.w = None

VARIABLES
    defaultExpiration,  \* c.defaultExpiration
    cleanupInterval,    \* the interval New was given (janitor.Interval)
    plain,              \* the unsharded cache of src/cache.go: items, mu
    hashkey,            \* the process's memhash key
    keys,               \* the keys the callers of this run use
    items,              \* c.items[i].data, per shard
    mu,                 \* c.items[i].RWMutex, per shard
    clock,              \* nanoTime()
    th,                 \* each goroutine's position and locals
    tickerC,            \* the janitor's ticker channel (capacity 1)
    tickerOn,           \* the ticker is running
    handle,             \* the outward *Cache: reachable, finalizing, finalized
    abs,                \* history: the last write to each hash, in lock order
    everSet,            \* history: the keys passed to Set, SetDefault or Add
    calls               \* history: the number of calls made so far

vars ==
    <<defaultExpiration, cleanupInterval, plain, hashkey, keys, items, mu, clock, th, tickerC, tickerOn,
      handle, abs, everSet, calls>>

(***************************************************************************)
(* A goroutine's locals.  pc is its position; op, k and ret stay after the *)
(* return (pc = "done") until its next call.  g is history: what the       *)
(* specification expects of the call in flight.                            *)
(***************************************************************************)
NoRet == [v |-> Nil, ok |-> FALSE, n |-> 0]

NoGhost == [e |-> 0, n |-> 0, x |-> 0, tot |-> {}]

Idle ==
    [pc |-> "idle", op |-> "none", k |-> NoKey, x |-> Nil, d |-> 0, e |-> 0,
     now |-> 0, i |-> 0, n |-> 0, ret |-> NoRet, g |-> NoGhost]

Done(op, k, ret) == [Idle EXCEPT !.pc = "done", !.op = op, !.k = k, !.ret = ret]

(* A goroutine calls when it is not in a call and still holds the handle;   *)
(* the model stops after MaxCalls calls.                                   *)
CanCall(t) ==
    /\ th[t].pc \in {"idle", "done", "panicked"}
    /\ handle = "reachable"
    /\ calls < MaxCalls

HashOf(t) == keyToHash(th[t].k, hashkey)

(* keyToHash(k) panics: the call unwinds to the caller, who recovers. *)
Panics(k) == keyToHash(k, hashkey) = Panic

Panicked(op, k) == [Idle EXCEPT !.pc = "panicked", !.op = op, !.k = k]

(* History: the expiration the specification gives a Set at time now:      *)
(* never (0) unless the resolved duration is positive, else now + d.       *)
SpecExpiry(d, de, now) ==
    LET eff == IF d = DefaultExpiration THEN de ELSE d
    IN  IF eff > 0 THEN now + eff ELSE 0

(* History: is an entry written with expiry e logically present at now?    *)
SpecLive(e, now) == e = 0 \/ now <= e

(***************************************************************************)
(* History: abs[h] is the last write to hash h in the order the writers    *)
(* took the shard's exclusive lock: a Set (its value and expected expiry), *)
(* a Delete, or a Flush (which keeps the value it flushed, and by whom).   *)
(* sw is what the last sweep that scanned the entry's shard had to do with *)
(* it by its own timestamp: "kept" it, or "removed" it as expired.         *)
(***************************************************************************)
AbsSet(x, e) ==
    [op |-> "Set", v |-> x, e |-> e, by |-> None, sw |-> "none", k |-> NoKey]

(* The same, with the key the caller passed. *)
AbsSetBy(k, x, e) == [AbsSet(x, e) EXCEPT !.k = k]

AbsDelete ==
    [op |-> "Delete", v |-> Nil, e |-> 0, by |-> None, sw |-> "none", k |-> NoKey]

AbsDeleteBy(k) == [AbsDelete EXCEPT !.k = k]

AbsFlush(rec, t) ==
    IF rec.op = "Flush" THEN rec
    ELSE [rec EXCEPT !.op = "Flush", !.by = t, !.sw = "none"]

AbsSweep(rec, now) ==
    IF rec.op # "Set" \/ rec.sw = "removed" THEN rec
    ELSE [rec EXCEPT !.sw = IF SpecLive(rec.e, now) THEN "kept" ELSE "removed"]

(* The hashes whose last write is a Set. *)
AbsSetHashes == {h \in DOMAIN abs : abs[h].op = "Set"}

Count(m) == Cardinality(DOMAIN m)

RECURSIVE SumCounts(_, _)
SumCounts(f, S) ==
    IF S = {} THEN 0
    ELSE LET i == CHOOSE j \in S : TRUE
         IN  Count(f[i]) + SumCounts(f, S \ {i})

(* The number of entries physically in the table. *)
Physical == SumCounts(items, Shards)

(* History of an ItemCount in progress: g.tot is the set of the numbers of *)
(* entries the table has held since the call began.  Every step that       *)
(* writes a map adds the new number to the history of each count under     *)
(* way.                                                                    *)
Total(its) == SumCounts(its, Shards)

Counting(r) == r.op = "ItemCount" /\ r.pc \in {"CountRLock", "CountAdd"}

Observe(f, its) ==
    [p \in DOMAIN f |->
       IF Counting(f[p]) THEN [f[p] EXCEPT !.g.tot = @ \cup {Total(its)}]
       ELSE f[p]]

ExpiredIn(m, now) ==
    {h \in DOMAIN m : m[h].Expiration > 0 /\ now > m[h].Expiration}

RECURSIVE SumExpired(_, _, _)
SumExpired(f, S, now) ==
    IF S = {} THEN 0
    ELSE LET i == CHOOSE j \in S : TRUE
         IN  Cardinality(ExpiredIn(f[i], now)) + SumExpired(f, S \ {i}, now)

(***************************************************************************)
(* newCache and New.                                                       *)
(***************************************************************************)
newCacheDefault(de) == IF de = 0 THEN -1 ELSE de

(* newCacheWithJanitor: if ci > 0 { runJanitor(c, ci); ... } *)
JanitorStartAtZero(ci) == IF ci >= 0 THEN "Run" ELSE "none"

JanitorStart(ci) == IF ci > 0 THEN "Run" ELSE "none"

(* New of src/cache.go: an empty map behind one unlocked mutex, and the    *)
(* history of its writes.                                                  *)
PlainInit ==
    [items |-> EmptyMap, mu |-> Unlocked, abs |-> EmptyMap,
     ti |-> 0, time |-> 0, tickC |-> 0, due |-> 0]

(* NewLazy with timeNowInterval ti > 0, at the time now: l.time is the     *)
(* time of construction and l.ticker first fires ti later.                 *)
LazyInit(ti, now) == [PlainInit EXCEPT !.ti = ti, !.time = now, !.due = now + ti]

InitWith(DEs, CIs, HKs, Us) ==
    /\ keys \in Us
    /\ cleanupInterval \in CIs
    /\ plain = PlainInit
    /\ \E de \in DEs : defaultExpiration = newCacheDefault(de)
    /\ hashkey \in HKs
    /\ items = [i \in Shards |-> EmptyMap]
    /\ mu = [i \in Shards |-> Unlocked]
    /\ clock = 1
    /\ th = [p \in Procs |->
               IF p = Janitor
               THEN [Idle EXCEPT !.pc = JanitorStart(cleanupInterval)]
               ELSE Idle]
    /\ tickerC = 0
    /\ tickerOn = FALSE
    /\ handle = "reachable"
    /\ abs = EmptyMap
    /\ everSet = {}
    /\ calls = 0

(***************************************************************************)
(* Set (and SetDefault, which calls it with the default duration).         *)
(***************************************************************************)
SetCall(t, k, x, d) ==
    /\ CanCall(t)
    /\ th' = [th EXCEPT ![t] =
                IF Panics(k) THEN Panicked("Set", k)
                ELSE
                [Idle EXCEPT !.pc = "SetLock", !.op = "Set", !.k = k, !.x = x,
                             !.e = SetExpiration(d, defaultExpiration, clock),
                             !.g = [NoGhost EXCEPT
                                      !.e = SpecExpiry(d, defaultExpiration, clock)]]]
    /\ everSet' = IF Panics(k) THEN everSet ELSE everSet \cup {k}
    /\ calls' = calls + 1
    /\ UNCHANGED <<defaultExpiration, cleanupInterval, plain, hashkey, keys, items, mu, clock, tickerC,
                   tickerOn, handle, abs>>

SetDefaultCall(t, k, x) == SetCall(t, k, x, defaultExpiration)

SetLock(t) ==
    LET key == HashOf(t)
        idx == ShardOf(key)
    IN  /\ th[t].pc = "SetLock"
        /\ CanLock(mu[idx])
        /\ mu' = [mu EXCEPT ![idx].w = t]
        /\ th' = [th EXCEPT ![t].pc = "SetStore"]
        /\ abs' = Put(abs, key, AbsSetBy(th[t].k, th[t].x, th[t].g.e))
        /\ UNCHANGED <<defaultExpiration, cleanupInterval, plain, hashkey, keys, items, clock, tickerC,
                       tickerOn, handle, everSet, calls>>

(* A store that keeps the entry the hash already has. *)
SetStoreKeepFirst(t) ==
    LET key == HashOf(t)
        idx == ShardOf(key)
    IN  /\ th[t].pc = "SetStore"
        /\ items' = [items EXCEPT ![idx] =
                       IF key \in DOMAIN @ THEN @ ELSE Put(@, key, Item(th[t].x, th[t].e))]
        /\ mu' = [mu EXCEPT ![idx].w = None]
        /\ th' = Observe([th EXCEPT ![t] = Done("Set", th[t].k, NoRet)], items')
        /\ UNCHANGED <<defaultExpiration, cleanupInterval, plain, hashkey, keys,
                       clock, tickerC, tickerOn, handle, abs, everSet, calls>>

(* c.shards[idx].data[key] = item{x, e}; Unlock *)
SetStore(t) ==
    LET key == HashOf(t)
        idx == ShardOf(key)
    IN  /\ th[t].pc = "SetStore"
        /\ items' = [items EXCEPT ![idx] = Put(@, key, Item(th[t].x, th[t].e))]
        /\ mu' = [mu EXCEPT ![idx].w = None]
        /\ th' = Observe([th EXCEPT ![t] = Done("Set", th[t].k, NoRet)], items')
        /\ UNCHANGED <<defaultExpiration, cleanupInterval, plain, hashkey, keys, clock, tickerC, tickerOn,
                       handle, abs, everSet, calls>>

(***************************************************************************)
(* Get.                                                                    *)
(***************************************************************************)
GetCall(t, k) ==
    /\ CanCall(t)
    /\ th' = [th EXCEPT ![t] =
                IF Panics(k) THEN Panicked("Get", k)
                ELSE [Idle EXCEPT !.pc = "GetRLock", !.op = "Get", !.k = k]]
    /\ calls' = calls + 1
    /\ UNCHANGED <<defaultExpiration, cleanupInterval, plain, hashkey, keys, items, mu, clock, tickerC,
                   tickerOn, handle, abs, everSet>>

GetRLock(t) ==
    LET idx == ShardOf(HashOf(t))
    IN  /\ th[t].pc = "GetRLock"
        /\ CanRLock(mu[idx])
        /\ mu' = [mu EXCEPT ![idx].r = @ \cup {t}]
        /\ th' = [th EXCEPT ![t].pc = "GetRead"]
        /\ UNCHANGED <<defaultExpiration, cleanupInterval, plain, hashkey, keys, items, clock, tickerC,
                       tickerOn, handle, abs, everSet, calls>>

(* Lookups without the `if !found` test, without the expiry test. *)
GetResultNoFoundCheck(data, key, now) ==
    IF key \notin DOMAIN data THEN [v |-> Nil, ok |-> TRUE, n |-> 0]
    ELSE IF GetExpired(data[key], now) THEN NoRet
    ELSE [v |-> data[key].Object, ok |-> TRUE, n |-> 0]

GetResultNoExpiry(data, key, now) ==
    IF key \notin DOMAIN data THEN NoRet
    ELSE [v |-> data[key].Object, ok |-> TRUE, n |-> 0]

(* The lookup under the shared lock: (value, ok). *)
GetResult(data, key, now) ==
    IF key \notin DOMAIN data THEN NoRet
    ELSE IF GetExpired(data[key], now) THEN NoRet
    ELSE [v |-> data[key].Object, ok |-> TRUE, n |-> 0]

(* A read that returns on a miss without releasing the shared lock. *)
GetReadNoUnlockOnMiss(t) ==
    LET key == HashOf(t)
        idx == ShardOf(key)
        ret == GetResult(items[idx], key, clock)
    IN  /\ th[t].pc = "GetRead"
        /\ mu' = IF ret.ok THEN [mu EXCEPT ![idx].r = @ \ {t}] ELSE mu
        /\ th' = [th EXCEPT ![t] = Done("Get", th[t].k, ret)]
        /\ UNCHANGED <<defaultExpiration, cleanupInterval, plain, hashkey, keys, items, clock, tickerC,
                       tickerOn, handle, abs, everSet, calls>>

(* A read that evicts the expired entry it finds. *)
GetReadEvict(t) ==
    LET key == HashOf(t)
        idx == ShardOf(key)
    IN  /\ th[t].pc = "GetRead"
        /\ mu' = [mu EXCEPT ![idx].r = @ \ {t}]
        /\ items' = [items EXCEPT ![idx] =
                       IF key \in DOMAIN @ /\ GetExpired(@[key], clock)
                       THEN Del(@, key) ELSE @]
        /\ th' = Observe([th EXCEPT ![t] =
                            Done("Get", th[t].k, GetResult(items[idx], key, clock))], items')
        /\ UNCHANGED <<defaultExpiration, cleanupInterval, plain, hashkey, keys, clock, tickerC,
                       tickerOn, handle, abs, everSet, calls>>

GetRead(t) ==
    LET key == HashOf(t)
        idx == ShardOf(key)
    IN  /\ th[t].pc = "GetRead"
        /\ mu' = [mu EXCEPT ![idx].r = @ \ {t}]
        /\ th' = [th EXCEPT ![t] =
                    Done("Get", th[t].k, GetResult(items[idx], key, clock))]
        /\ UNCHANGED <<defaultExpiration, cleanupInterval, plain, hashkey, keys, items, clock, tickerC,
                       tickerOn, handle, abs, everSet, calls>>

(***************************************************************************)
(* Delete.                                                                 *)
(***************************************************************************)
DeleteCall(t, k) ==
    /\ CanCall(t)
    /\ th' = [th EXCEPT ![t] =
                IF Panics(k) THEN Panicked("Delete", k)
                ELSE [Idle EXCEPT !.pc = "DeleteLock", !.op = "Delete", !.k = k]]
    /\ calls' = calls + 1
    /\ UNCHANGED <<defaultExpiration, cleanupInterval, plain, hashkey, keys, items, mu, clock, tickerC,
                   tickerOn, handle, abs, everSet>>

DeleteLock(t) ==
    LET key == HashOf(t)
        idx == ShardOf(key)
    IN  /\ th[t].pc = "DeleteLock"
        /\ CanLock(mu[idx])
        /\ mu' = [mu EXCEPT ![idx].w = t]
        /\ th' = [th EXCEPT ![t].pc = "DeleteEntry"]
        /\ abs' = Put(abs, key, AbsDeleteBy(th[t].k))
        /\ UNCHANGED <<defaultExpiration, cleanupInterval, plain, hashkey, keys, items, clock, tickerC,
                       tickerOn, handle, everSet, calls>>

(* A Delete that removes only an entry a Get would find. *)
DeleteEntryIfFound(t) ==
    LET key == HashOf(t)
        idx == ShardOf(key)
    IN  /\ th[t].pc = "DeleteEntry"
        /\ items' = [items EXCEPT ![idx] =
                       IF GetResult(@, key, clock).ok THEN Del(@, key) ELSE @]
        /\ mu' = [mu EXCEPT ![idx].w = None]
        /\ th' = Observe([th EXCEPT ![t] = Done("Delete", th[t].k, NoRet)], items')
        /\ UNCHANGED <<defaultExpiration, cleanupInterval, plain, hashkey, keys, clock, tickerC, tickerOn,
                       handle, abs, everSet, calls>>

DeleteEntry(t) ==
    LET key == HashOf(t)
        idx == ShardOf(key)
    IN  /\ th[t].pc = "DeleteEntry"
        /\ items' = [items EXCEPT ![idx] = Del(@, key)]
        /\ mu' = [mu EXCEPT ![idx].w = None]
        /\ th' = Observe([th EXCEPT ![t] = Done("Delete", th[t].k, NoRet)], items')
        /\ UNCHANGED <<defaultExpiration, cleanupInterval, plain, hashkey, keys, clock, tickerC, tickerOn,
                       handle, abs, everSet, calls>>

(***************************************************************************)
(* DeleteExpired, called by a goroutine or by the janitor: one timestamp,  *)
(* then shard after shard under its exclusive lock.                        *)
(***************************************************************************)
SweepStart(p) ==
    [Idle EXCEPT !.pc = "SweepLock", !.op = "DeleteExpired", !.now = clock,
                 !.i = 0,
                 !.g = [NoGhost EXCEPT !.n = Physical,
                                       !.x = SumExpired(items, Shards, clock)]]

DeleteExpiredCall(t) ==
    /\ CanCall(t)
    /\ th' = [th EXCEPT ![t] = SweepStart(t)]
    /\ calls' = calls + 1
    /\ UNCHANGED <<defaultExpiration, cleanupInterval, plain, hashkey, keys, items, mu, clock, tickerC,
                   tickerOn, handle, abs, everSet>>

SweepLock(p) ==
    /\ th[p].pc = "SweepLock"
    /\ CanLock(mu[th[p].i])
    /\ mu' = [mu EXCEPT ![th[p].i].w = p]
    /\ th' = [th EXCEPT ![p].pc = "SweepScan"]
    /\ UNCHANGED <<defaultExpiration, cleanupInterval, plain, hashkey, keys, items, clock, tickerC,
                   tickerOn, handle, abs, everSet, calls>>

(* The shard's map after the scan. *)
Swept(data, now) ==
    [h \in {j \in DOMAIN data : ~SweepExpired(data[j], now)} |-> data[h]]

(* range c.items: the shard after i, if any. *)
MoreShards(i) == i + 1 < numShards

(* A janitor's sweep that looks at the stop channel between two shards. *)
SweepScanInterruptible(p) ==
    LET i == th[p].i
        stop == p = Janitor /\ handle = "finalizing" /\ MoreShards(i)
    IN  /\ th[p].pc = "SweepScan"
        /\ items' = [items EXCEPT ![i] = Swept(@, th[p].now)]
        /\ mu' = [mu EXCEPT ![i].w = None]
        /\ th' = Observe([th EXCEPT ![p] =
                            IF stop THEN [Idle EXCEPT !.pc = "stopped"]
                            ELSE IF MoreShards(i)
                            THEN [@ EXCEPT !.pc = "SweepLock", !.i = i + 1]
                            ELSE IF p = Janitor
                                 THEN [Idle EXCEPT !.pc = "select"]
                                 ELSE [@ EXCEPT !.pc = "done"]], items')
        /\ abs' = [h \in DOMAIN abs |->
                     IF ShardOf(h) = i THEN AbsSweep(abs[h], th[p].now) ELSE abs[h]]
        /\ handle' = IF stop THEN "finalized" ELSE handle
        /\ tickerOn' = IF stop THEN FALSE ELSE tickerOn
        /\ UNCHANGED <<defaultExpiration, cleanupInterval, plain, hashkey, keys,
                       clock, tickerC, everSet, calls>>

(* A sweep whose unlocks are deferred to its return. *)
SweepScanDeferUnlock(p) ==
    LET i == th[p].i
    IN  /\ th[p].pc = "SweepScan"
        /\ items' = [items EXCEPT ![i] = Swept(@, th[p].now)]
        /\ mu' = IF MoreShards(i) THEN mu
                 ELSE [j \in Shards |->
                         IF mu[j].w = p THEN [mu[j] EXCEPT !.w = None] ELSE mu[j]]
        /\ th' = Observe([th EXCEPT ![p] =
                            IF MoreShards(i)
                            THEN [@ EXCEPT !.pc = "SweepLock", !.i = i + 1]
                            ELSE IF p = Janitor
                                 THEN [Idle EXCEPT !.pc = "select"]
                                 ELSE [@ EXCEPT !.pc = "done"]], items')
        /\ abs' = [h \in DOMAIN abs |->
                     IF ShardOf(h) = i THEN AbsSweep(abs[h], th[p].now) ELSE abs[h]]
        /\ UNCHANGED <<defaultExpiration, cleanupInterval, plain, hashkey, keys,
                       clock, tickerC, tickerOn, handle, everSet, calls>>

(* A sweep that reads the clock again at every shard. *)
SweepScanResample(p) ==
    LET i == th[p].i
    IN  /\ th[p].pc = "SweepScan"
        /\ items' = [items EXCEPT ![i] = Swept(@, clock)]
        /\ mu' = [mu EXCEPT ![i].w = None]
        /\ th' = Observe([th EXCEPT ![p] =
                            IF MoreShards(i)
                            THEN [@ EXCEPT !.pc = "SweepLock", !.i = i + 1, !.now = clock]
                            ELSE IF p = Janitor
                                 THEN [Idle EXCEPT !.pc = "select"]
                                 ELSE [@ EXCEPT !.pc = "done", !.now = clock]], items')
        /\ abs' = [h \in DOMAIN abs |->
                     IF ShardOf(h) = i THEN AbsSweep(abs[h], clock) ELSE abs[h]]
        /\ UNCHANGED <<defaultExpiration, cleanupInterval, plain, hashkey, keys,
                       clock, tickerC, tickerOn, handle, everSet, calls>>

(* The scan of shard i with the sweep's timestamp; Unlock; the next shard. *)
SweepScan(p) ==
    LET i == th[p].i
    IN  /\ th[p].pc = "SweepScan"
        /\ items' = [items EXCEPT ![i] = Swept(@, th[p].now)]
        /\ mu' = [mu EXCEPT ![i].w = None]
        /\ th' = Observe([th EXCEPT ![p] =
                            IF MoreShards(i)
                            THEN [@ EXCEPT !.pc = "SweepLock", !.i = i + 1]
                            ELSE IF p = Janitor
                                 THEN [Idle EXCEPT !.pc = "select"]
                                 ELSE [@ EXCEPT !.pc = "done"]], items')
        /\ abs' = [h \in DOMAIN abs |->
                     IF ShardOf(h) = i THEN AbsSweep(abs[h], th[p].now) ELSE abs[h]]
        /\ UNCHANGED <<defaultExpiration, cleanupInterval, plain, hashkey, keys, clock, tickerC, tickerOn,
                       handle, everSet, calls>>

(***************************************************************************)
(* ItemCount: shard after shard under its shared lock.                     *)
(***************************************************************************)
ItemCountCall(t) ==
    /\ CanCall(t)
    /\ th' = [th EXCEPT ![t] =
                [Idle EXCEPT !.pc = "CountRLock", !.op = "ItemCount",
                             !.g.tot = {Physical}]]
    /\ calls' = calls + 1
    /\ UNCHANGED <<defaultExpiration, cleanupInterval, plain, hashkey, keys, items, mu, clock, tickerC,
                   tickerOn, handle, abs, everSet>>

CountRLock(t) ==
    /\ th[t].pc = "CountRLock"
    /\ CanRLock(mu[th[t].i])
    /\ mu' = [mu EXCEPT ![th[t].i].r = @ \cup {t}]
    /\ th' = [th EXCEPT ![t].pc = "CountAdd"]
    /\ UNCHANGED <<defaultExpiration, cleanupInterval, plain, hashkey, keys, items, clock, tickerC,
                   tickerOn, handle, abs, everSet, calls>>

(* An ItemCount that returns the size of the last shard alone. *)
CountAddLast(t) ==
    LET i == th[t].i
        n == Count(items[i])
    IN  /\ th[t].pc = "CountAdd"
        /\ mu' = [mu EXCEPT ![i].r = @ \ {t}]
        /\ th' = [th EXCEPT ![t] =
                    IF MoreShards(i)
                    THEN [@ EXCEPT !.pc = "CountRLock", !.i = i + 1, !.n = n]
                    ELSE [Done("ItemCount", NoKey, [NoRet EXCEPT !.n = n])
                            EXCEPT !.g.tot = th[t].g.tot]]
        /\ UNCHANGED <<defaultExpiration, cleanupInterval, plain, hashkey, keys, items, clock, tickerC,
                       tickerOn, handle, abs, everSet, calls>>

(* n += len(c.items[i].data); RUnlock; the next shard or return n *)
CountAdd(t) ==
    LET i == th[t].i
        n == th[t].n + Count(items[i])
    IN  /\ th[t].pc = "CountAdd"
        /\ mu' = [mu EXCEPT ![i].r = @ \ {t}]
        /\ th' = [th EXCEPT ![t] =
                    IF MoreShards(i)
                    THEN [@ EXCEPT !.pc = "CountRLock", !.i = i + 1, !.n = n]
                    ELSE [Done("ItemCount", NoKey, [NoRet EXCEPT !.n = n])
                            EXCEPT !.g.tot = th[t].g.tot]]
        /\ UNCHANGED <<defaultExpiration, cleanupInterval, plain, hashkey, keys, items, clock, tickerC,
                       tickerOn, handle, abs, everSet, calls>>

(***************************************************************************)
(* Flush: shard after shard under its exclusive lock.                      *)
(***************************************************************************)
FlushCall(t) ==
    /\ CanCall(t)
    /\ th' = [th EXCEPT ![t] = [Idle EXCEPT !.pc = "FlushLock", !.op = "Flush"]]
    /\ calls' = calls + 1
    /\ UNCHANGED <<defaultExpiration, cleanupInterval, plain, hashkey, keys, items, mu, clock, tickerC,
                   tickerOn, handle, abs, everSet>>

FlushLock(t) ==
    LET i == th[t].i
    IN  /\ th[t].pc = "FlushLock"
        /\ CanLock(mu[i])
        /\ mu' = [mu EXCEPT ![i].w = t]
        /\ th' = [th EXCEPT ![t].pc = "FlushShard"]
        /\ abs' = [h \in DOMAIN abs |->
                     IF ShardOf(h) = i THEN AbsFlush(abs[h], t) ELSE abs[h]]
        /\ UNCHANGED <<defaultExpiration, cleanupInterval, plain, hashkey, keys, items, clock, tickerC,
                       tickerOn, handle, everSet, calls>>

(* A Flush that returns after the first shard. *)
FlushShardFirstOnly(t) ==
    LET i == th[t].i
    IN  /\ th[t].pc = "FlushShard"
        /\ items' = [items EXCEPT ![i] = EmptyMap]
        /\ mu' = [mu EXCEPT ![i].w = None]
        /\ th' = Observe([th EXCEPT ![t] = Done("Flush", NoKey, NoRet)], items')
        /\ UNCHANGED <<defaultExpiration, cleanupInterval, plain, hashkey, keys, clock, tickerC, tickerOn,
                       handle, abs, everSet, calls>>

FlushShard(t) ==
    LET i == th[t].i
    IN  /\ th[t].pc = "FlushShard"
        /\ items' = [items EXCEPT ![i] = EmptyMap]
        /\ mu' = [mu EXCEPT ![i].w = None]
        /\ th' = Observe([th EXCEPT ![t] =
                            IF MoreShards(i)
                            THEN [@ EXCEPT !.pc = "FlushLock", !.i = i + 1]
                            ELSE Done("Flush", NoKey, NoRet)], items')
        /\ UNCHANGED <<defaultExpiration, cleanupInterval, plain, hashkey, keys, clock, tickerC, tickerOn,
                       handle, abs, everSet, calls>>

(***************************************************************************)
(* Add: get and set under one exclusive lock.                              *)
(***************************************************************************)
AddCall(t, k, x, d) ==
    /\ CanCall(t)
    /\ th' = [th EXCEPT ![t] =
                IF Panics(k) THEN Panicked("Add", k)
                ELSE [Idle EXCEPT !.pc = "AddLock", !.op = "Add", !.k = k, !.x = x,
                                  !.d = d]]
    /\ everSet' = IF Panics(k) THEN everSet ELSE everSet \cup {k}
    /\ calls' = calls + 1
    /\ UNCHANGED <<defaultExpiration, cleanupInterval, plain, hashkey, keys, items, mu, clock, tickerC,
                   tickerOn, handle, abs>>

(* An Add that takes the shard's lock shared, as a reader does. *)
AddLockShared(t) ==
    LET idx == ShardOf(HashOf(t))
    IN  /\ th[t].pc = "AddLock"
        /\ CanRLock(mu[idx])
        /\ mu' = [mu EXCEPT ![idx].r = @ \cup {t}]
        /\ th' = [th EXCEPT ![t].pc = "AddGet"]
        /\ UNCHANGED <<defaultExpiration, cleanupInterval, plain, hashkey, keys,
                       items, clock, tickerC, tickerOn, handle, abs, everSet, calls>>

(* c.shards[idx].Lock() *)
AddLock(t) ==
    LET idx == ShardOf(HashOf(t))
    IN  /\ th[t].pc = "AddLock"
        /\ CanLock(mu[idx])
        /\ mu' = [mu EXCEPT ![idx].w = t]
        /\ th' = [th EXCEPT ![t].pc = "AddGet"]
        /\ UNCHANGED <<defaultExpiration, cleanupInterval, plain, hashkey, keys,
                       items, clock, tickerC, tickerOn, handle, abs, everSet, calls>>

(* A lookup that takes a present entry for found, expired or not. *)
AddGetPresent(t) ==
    LET key == HashOf(t)
        idx == ShardOf(key)
        found == key \in DOMAIN items[idx]
    IN  /\ th[t].pc = "AddGet"
        /\ IF found
           THEN /\ mu' = [mu EXCEPT ![idx].w = None]
                /\ th' = [th EXCEPT ![t] = Done("Add", th[t].k, NoRet)]
           ELSE /\ mu' = mu
                /\ th' = [th EXCEPT ![t].pc = "AddSet"]
        /\ UNCHANGED <<defaultExpiration, cleanupInterval, plain, hashkey, keys,
                       items, clock, tickerC, tickerOn, handle, abs, everSet, calls>>

(* _, found := c.get(k); if found { Unlock; return error } *)
AddGet(t) ==
    LET key == HashOf(t)
        idx == ShardOf(key)
        found == GetResult(items[idx], key, clock).ok
    IN  /\ th[t].pc = "AddGet"
        /\ IF found
           THEN /\ mu' = [mu EXCEPT ![idx].w = None]
                /\ th' = [th EXCEPT ![t] = Done("Add", th[t].k, NoRet)]
           ELSE /\ mu' = mu
                /\ th' = [th EXCEPT ![t].pc = "AddSet"]
        /\ UNCHANGED <<defaultExpiration, cleanupInterval, plain, hashkey, keys,
                       items, clock, tickerC, tickerOn, handle, abs, everSet, calls>>

(* c.set(k, x, d); Unlock; return nil *)
AddSet(t) ==
    LET key == HashOf(t)
        idx == ShardOf(key)
        e == SetExpiration(th[t].d, defaultExpiration, clock)
    IN  /\ th[t].pc = "AddSet"
        /\ items' = [items EXCEPT ![idx] = Put(@, key, Item(th[t].x, e))]
        /\ abs' = Put(abs, key,
                      AbsSetBy(th[t].k, th[t].x,
                               SpecExpiry(th[t].d, defaultExpiration, clock)))
        /\ mu' = [mu EXCEPT ![idx].w = None]
        /\ th' = Observe([th EXCEPT ![t] = Done("Add", th[t].k, [NoRet EXCEPT !.ok = TRUE])], items')
        /\ UNCHANGED <<defaultExpiration, cleanupInterval, plain, hashkey, keys,
                       clock, tickerC, tickerOn, handle, everSet, calls>>

(***************************************************************************)
(* The unsharded cache of src/cache.go: one map behind one mutex.  c.now   *)
(* is time.Now in a cache made by New, and lazyTime.now in a cache made by *)
(* NewLazy: the time cached in l.time, refreshed by the caller that finds  *)
(* a tick of l.ticker pending.  keyToHash is called under the mutex.       *)
(***************************************************************************)

(* c.now(), where a call makes it: Set before the lock, Get under the      *)
(* shared lock, DeleteExpired before the lock.                             *)
NowPcs == {"PlainSetNow", "PlainGetNow", "PlainSweepNow"}

AfterNow(pc) ==
    CASE pc = "PlainSetNow"   -> "PlainSetLock"
      [] pc = "PlainGetNow"   -> "PlainGetCheck"
      [] pc = "PlainSweepNow" -> "PlainSweepLock"

(* c.now = time.Now. *)
NowExact(t) ==
    /\ th[t].pc \in NowPcs
    /\ plain.ti <= 0
    /\ th' = [th EXCEPT ![t].now = clock, ![t].pc = AfterNow(@)]
    /\ UNCHANGED <<defaultExpiration, cleanupInterval, plain, hashkey, keys, items, mu,
                   clock, tickerC, tickerOn, handle, abs, everSet, calls>>

(* lazyTime.now: select { case <-l.ticker.C: ... default: ... }.  i is the *)
(* caller's place in it: 0 at the select, 1 before l.time = time.Now(),    *)
(* 2 before return l.time.                                                 *)
NowSelect(t) ==
    /\ th[t].pc \in NowPcs
    /\ plain.ti > 0
    /\ th[t].i = 0
    /\ IF plain.tickC = 1
       THEN /\ plain' = [plain EXCEPT !.tickC = 0]
            /\ th' = [th EXCEPT ![t].i = 1]
       ELSE /\ plain' = plain
            /\ th' = [th EXCEPT ![t].i = 2]
    /\ UNCHANGED <<defaultExpiration, cleanupInterval, hashkey, keys, items, mu,
                   clock, tickerC, tickerOn, handle, abs, everSet, calls>>

(* l.time = time.Now() *)
NowStore(t) ==
    /\ th[t].pc \in NowPcs
    /\ th[t].i = 1
    /\ plain' = [plain EXCEPT !.time = clock]
    /\ th' = [th EXCEPT ![t].i = 2]
    /\ UNCHANGED <<defaultExpiration, cleanupInterval, hashkey, keys, items, mu,
                   clock, tickerC, tickerOn, handle, abs, everSet, calls>>

(* return l.time *)
NowLoad(t) ==
    /\ th[t].pc \in NowPcs
    /\ th[t].i = 2
    /\ th' = [th EXCEPT ![t].now = plain.time, ![t].i = 0, ![t].pc = AfterNow(@)]
    /\ UNCHANGED <<defaultExpiration, cleanupInterval, plain, hashkey, keys, items, mu,
                   clock, tickerC, tickerOn, handle, abs, everSet, calls>>

(* l.ticker: every timeNowInterval a tick is sent unless one is pending. *)
LazyTickerFire ==
    /\ plain.ti > 0
    /\ clock >= plain.due
    /\ plain' = [plain EXCEPT !.tickC = 1, !.due = @ + plain.ti]
    /\ UNCHANGED <<defaultExpiration, cleanupInterval, hashkey, keys, items, mu, clock,
                   th, tickerC, tickerOn, handle, abs, everSet, calls>>

(* Set: the expiration from c.now() before the lock; the hash and the      *)
(* store under it.  time.Now() is read in the call's first step, and       *)
(* lazyTime.now in steps of its own.  g.x is history: the clock when Set   *)
(* was called.                                                             *)
PlainSetCall(t, k, x, d) ==
    LET d1 == IF d = DefaultExpiration THEN defaultExpiration ELSE d
    IN  /\ CanCall(t)
        /\ th' = [th EXCEPT ![t] =
                    [Idle EXCEPT !.pc = IF d1 > 0 /\ plain.ti > 0 THEN "PlainSetNow"
                                        ELSE "PlainSetLock",
                                 !.op = "PlainSet", !.k = k, !.x = x, !.d = d1,
                                 !.now = clock,
                                 !.g = [NoGhost EXCEPT !.x = clock]]]
        /\ calls' = calls + 1
        /\ UNCHANGED <<defaultExpiration, cleanupInterval, plain, hashkey, keys,
                       items, mu, clock, tickerC, tickerOn, handle, abs, everSet>>

PlainSetLock(t) ==
    /\ th[t].pc = "PlainSetLock"
    /\ CanLock(plain.mu)
    /\ plain' =
         [plain EXCEPT
            !.mu.w = t,
            !.abs = IF Panics(th[t].k) THEN @
                    ELSE Put(@, HashOf(t),
                             AbsSetBy(th[t].k, th[t].x,
                                      IF th[t].d > 0 THEN th[t].g.x + th[t].d ELSE 0))]
    /\ th' = [th EXCEPT ![t].pc = "PlainSetStore",
                        ![t].e = IF th[t].d > 0 THEN ToInt64(th[t].now + th[t].d)
                                 ELSE 0]
    /\ UNCHANGED <<defaultExpiration, cleanupInterval, hashkey, keys, items, mu,
                   clock, tickerC, tickerOn, handle, abs, everSet, calls>>

(* c.items[keyToHash(k)] = Item{x, e}; Unlock.  A panic of keyToHash       *)
(* leaves the function with the mutex locked.                              *)
PlainSetStore(t) ==
    /\ th[t].pc = "PlainSetStore"
    /\ IF Panics(th[t].k)
       THEN /\ plain' = plain
            /\ th' = [th EXCEPT ![t] = Panicked("PlainSet", th[t].k)]
       ELSE /\ plain' = [plain EXCEPT
                           !.items = Put(@, HashOf(t), Item(th[t].x, th[t].e)),
                           !.mu.w = None]
            /\ th' = [th EXCEPT ![t] = Done("PlainSet", th[t].k, NoRet)]
    /\ UNCHANGED <<defaultExpiration, cleanupInterval, hashkey, keys, items, mu,
                   clock, tickerC, tickerOn, handle, abs, everSet, calls>>

(* Get: the lookup and the comparison with c.now() under the shared lock. *)
PlainGetCall(t, k) ==
    /\ CanCall(t)
    /\ th' = [th EXCEPT ![t] = [Idle EXCEPT !.pc = "PlainGetRLock", !.op = "PlainGet", !.k = k]]
    /\ calls' = calls + 1
    /\ UNCHANGED <<defaultExpiration, cleanupInterval, plain, hashkey, keys,
                   items, mu, clock, tickerC, tickerOn, handle, abs, everSet>>

PlainGetRLock(t) ==
    /\ th[t].pc = "PlainGetRLock"
    /\ CanRLock(plain.mu)
    /\ plain' = [plain EXCEPT !.mu.r = @ \cup {t}]
    /\ th' = [th EXCEPT ![t].pc = "PlainGetRead"]
    /\ UNCHANGED <<defaultExpiration, cleanupInterval, hashkey, keys, items, mu,
                   clock, tickerC, tickerOn, handle, abs, everSet, calls>>

(* item, found := c.items[keyToHash(k)] *)
PlainGetRead(t) ==
    LET key == HashOf(t)
    IN  /\ th[t].pc = "PlainGetRead"
        /\ IF Panics(th[t].k)
           THEN /\ plain' = plain
                /\ th' = [th EXCEPT ![t] = Panicked("PlainGet", th[t].k)]
           ELSE IF key \notin DOMAIN plain.items
           THEN /\ plain' = [plain EXCEPT !.mu.r = @ \ {t}]
                /\ th' = [th EXCEPT ![t] = Done("PlainGet", th[t].k, NoRet)]
           ELSE IF plain.items[key].Expiration > 0
           THEN /\ plain' = plain
                /\ th' = [th EXCEPT ![t].pc = "PlainGetNow",
                                    ![t].x = plain.items[key].Object,
                                    ![t].e = plain.items[key].Expiration]
           ELSE /\ plain' = [plain EXCEPT !.mu.r = @ \ {t}]
                /\ th' = [th EXCEPT ![t] =
                            Done("PlainGet", th[t].k,
                                 [NoRet EXCEPT !.v = plain.items[key].Object,
                                               !.ok = TRUE])]
        /\ UNCHANGED <<defaultExpiration, cleanupInterval, hashkey, keys, items, mu,
                       clock, tickerC, tickerOn, handle, abs, everSet, calls>>

(* if c.now().UnixNano() > item.Expiration { RUnlock; return } *)
PlainGetCheck(t) ==
    /\ th[t].pc = "PlainGetCheck"
    /\ plain' = [plain EXCEPT !.mu.r = @ \ {t}]
    /\ th' = [th EXCEPT ![t] =
                Done("PlainGet", th[t].k,
                     IF th[t].now > th[t].e THEN NoRet
                     ELSE [NoRet EXCEPT !.v = th[t].x, !.ok = TRUE])]
    /\ UNCHANGED <<defaultExpiration, cleanupInterval, hashkey, keys, items, mu,
                   clock, tickerC, tickerOn, handle, abs, everSet, calls>>

PlainDeleteCall(t, k) ==
    /\ CanCall(t)
    /\ th' = [th EXCEPT ![t] = [Idle EXCEPT !.pc = "PlainDeleteLock", !.op = "PlainDelete", !.k = k]]
    /\ calls' = calls + 1
    /\ UNCHANGED <<defaultExpiration, cleanupInterval, plain, hashkey, keys,
                   items, mu, clock, tickerC, tickerOn, handle, abs, everSet>>

PlainDeleteLock(t) ==
    /\ th[t].pc = "PlainDeleteLock"
    /\ CanLock(plain.mu)
    /\ plain' = [plain EXCEPT
                   !.mu.w = t,
                   !.abs = IF Panics(th[t].k) THEN @
                           ELSE Put(@, HashOf(t), AbsDeleteBy(th[t].k))]
    /\ th' = [th EXCEPT ![t].pc = "PlainDeleteEntry"]
    /\ UNCHANGED <<defaultExpiration, cleanupInterval, hashkey, keys, items, mu,
                   clock, tickerC, tickerOn, handle, abs, everSet, calls>>

(* delete(c.items, keyToHash(k)); Unlock *)
PlainDeleteEntry(t) ==
    /\ th[t].pc = "PlainDeleteEntry"
    /\ IF Panics(th[t].k)
       THEN /\ plain' = plain
            /\ th' = [th EXCEPT ![t] = Panicked("PlainDelete", th[t].k)]
       ELSE /\ plain' = [plain EXCEPT !.items = Del(@, HashOf(t)), !.mu.w = None]
            /\ th' = [th EXCEPT ![t] = Done("PlainDelete", th[t].k, NoRet)]
    /\ UNCHANGED <<defaultExpiration, cleanupInterval, hashkey, keys, items, mu,
                   clock, tickerC, tickerOn, handle, abs, everSet, calls>>

(* DeleteExpired: now := c.now().UnixNano() before the lock. *)
PlainSweepCall(t) ==
    /\ CanCall(t)
    /\ th' = [th EXCEPT ![t] = [Idle EXCEPT !.pc = "PlainSweepNow", !.op = "PlainDeleteExpired"]]
    /\ calls' = calls + 1
    /\ UNCHANGED <<defaultExpiration, cleanupInterval, plain, hashkey, keys,
                   items, mu, clock, tickerC, tickerOn, handle, abs, everSet>>

PlainSweepLock(t) ==
    /\ th[t].pc = "PlainSweepLock"
    /\ CanLock(plain.mu)
    /\ plain' = [plain EXCEPT !.mu.w = t]
    /\ th' = [th EXCEPT ![t].pc = "PlainSweepScan"]
    /\ UNCHANGED <<defaultExpiration, cleanupInterval, hashkey, keys, items, mu,
                   clock, tickerC, tickerOn, handle, abs, everSet, calls>>

PlainSweepScan(t) ==
    /\ th[t].pc = "PlainSweepScan"
    /\ plain' = [plain EXCEPT
                   !.items = Swept(@, th[t].now),
                   !.abs = [h \in DOMAIN @ |-> AbsSweep(@[h], th[t].now)],
                   !.mu.w = None]
    /\ th' = [th EXCEPT ![t] = Done("PlainDeleteExpired", NoKey, NoRet)]
    /\ UNCHANGED <<defaultExpiration, cleanupInterval, hashkey, keys, items, mu,
                   clock, tickerC, tickerOn, handle, abs, everSet, calls>>

(***************************************************************************)
(* Add and Replace of the cache made by New (c.now is time.Now): the       *)
(* lookup of get and the write of set under one exclusive lock.            *)
(***************************************************************************)
PlainNow == clock

PlainAddCall(t, k, x, d) ==
    /\ CanCall(t)
    /\ th' = [th EXCEPT ![t] = [Idle EXCEPT !.pc = "PlainAddLock", !.op = "PlainAdd", !.k = k, !.x = x, !.d = d]]
    /\ calls' = calls + 1
    /\ UNCHANGED <<defaultExpiration, cleanupInterval, plain, hashkey, keys,
                   items, mu, clock, tickerC, tickerOn, handle, abs, everSet>>

PlainAddLock(t) ==
    /\ th[t].pc = "PlainAddLock"
    /\ CanLock(plain.mu)
    /\ plain' = [plain EXCEPT !.mu.w = t]
    /\ th' = [th EXCEPT ![t].pc = "PlainAddGet"]
    /\ UNCHANGED <<defaultExpiration, cleanupInterval, hashkey, keys, items, mu,
                   clock, tickerC, tickerOn, handle, abs, everSet, calls>>

(* A lookup that takes a present entry for found, expired or not. *)
PlainAddGetPresent(t) ==
    LET found == HashOf(t) \in DOMAIN plain.items
    IN  /\ th[t].pc = "PlainAddGet"
        /\ IF Panics(th[t].k)
           THEN /\ plain' = plain
                /\ th' = [th EXCEPT ![t] = Panicked("PlainAdd", th[t].k)]
           ELSE IF found
           THEN /\ plain' = [plain EXCEPT !.mu.w = None]
                /\ th' = [th EXCEPT ![t] = Done("PlainAdd", th[t].k, NoRet)]
           ELSE /\ plain' = plain
                /\ th' = [th EXCEPT ![t].pc = "PlainAddSet"]
        /\ UNCHANGED <<defaultExpiration, cleanupInterval, hashkey, keys, items, mu,
                       clock, tickerC, tickerOn, handle, abs, everSet, calls>>

(* _, found := c.get(k); if found { Unlock; return error } *)
PlainAddGet(t) ==
    LET found == GetResult(plain.items, HashOf(t), PlainNow).ok
    IN  /\ th[t].pc = "PlainAddGet"
        /\ IF Panics(th[t].k)
           THEN /\ plain' = plain
                /\ th' = [th EXCEPT ![t] = Panicked("PlainAdd", th[t].k)]
           ELSE IF found
           THEN /\ plain' = [plain EXCEPT !.mu.w = None]
                /\ th' = [th EXCEPT ![t] = Done("PlainAdd", th[t].k, NoRet)]
           ELSE /\ plain' = plain
                /\ th' = [th EXCEPT ![t].pc = "PlainAddSet"]
        /\ UNCHANGED <<defaultExpiration, cleanupInterval, hashkey, keys, items, mu,
                       clock, tickerC, tickerOn, handle, abs, everSet, calls>>

(* c.set(k, x, d); Unlock; return nil *)
PlainAddSet(t) ==
    LET key == HashOf(t)
    IN  /\ th[t].pc = "PlainAddSet"
        /\ plain' =
              [plain EXCEPT
                 !.items = Put(@, key,
                               Item(th[t].x,
                                    SetExpiration(th[t].d, defaultExpiration, PlainNow))),
                 !.abs = Put(@, key,
                             AbsSetBy(th[t].k, th[t].x,
                                      SpecExpiry(th[t].d, defaultExpiration, PlainNow))),
                 !.mu.w = None]
        /\ th' = [th EXCEPT ![t] = Done("PlainAdd", th[t].k, [NoRet EXCEPT !.ok = TRUE])]
        /\ UNCHANGED <<defaultExpiration, cleanupInterval, hashkey, keys, items, mu,
                       clock, tickerC, tickerOn, handle, abs, everSet, calls>>

ReplaceCall(t, k, x, d) ==
    /\ CanCall(t)
    /\ th' = [th EXCEPT ![t] = [Idle EXCEPT !.pc = "ReplaceLock", !.op = "Replace", !.k = k, !.x = x, !.d = d]]
    /\ calls' = calls + 1
    /\ UNCHANGED <<defaultExpiration, cleanupInterval, plain, hashkey, keys,
                   items, mu, clock, tickerC, tickerOn, handle, abs, everSet>>

ReplaceLock(t) ==
    /\ th[t].pc = "ReplaceLock"
    /\ CanLock(plain.mu)
    /\ plain' = [plain EXCEPT !.mu.w = t]
    /\ th' = [th EXCEPT ![t].pc = "ReplaceGet"]
    /\ UNCHANGED <<defaultExpiration, cleanupInterval, hashkey, keys, items, mu,
                   clock, tickerC, tickerOn, handle, abs, everSet, calls>>

(* A lookup that takes a present entry for found, expired or not. *)
ReplaceGetPresent(t) ==
    LET found == HashOf(t) \in DOMAIN plain.items
    IN  /\ th[t].pc = "ReplaceGet"
        /\ IF Panics(th[t].k)
           THEN /\ plain' = plain
                /\ th' = [th EXCEPT ![t] = Panicked("Replace", th[t].k)]
           ELSE IF ~found
           THEN /\ plain' = [plain EXCEPT !.mu.w = None]
                /\ th' = [th EXCEPT ![t] = Done("Replace", th[t].k, NoRet)]
           ELSE /\ plain' = plain
                /\ th' = [th EXCEPT ![t].pc = "ReplaceSet"]
        /\ UNCHANGED <<defaultExpiration, cleanupInterval, hashkey, keys, items, mu,
                       clock, tickerC, tickerOn, handle, abs, everSet, calls>>

(* _, found := c.get(k); if !found { Unlock; return error } *)
ReplaceGet(t) ==
    LET found == GetResult(plain.items, HashOf(t), PlainNow).ok
    IN  /\ th[t].pc = "ReplaceGet"
        /\ IF Panics(th[t].k)
           THEN /\ plain' = plain
                /\ th' = [th EXCEPT ![t] = Panicked("Replace", th[t].k)]
           ELSE IF ~found
           THEN /\ plain' = [plain EXCEPT !.mu.w = None]
                /\ th' = [th EXCEPT ![t] = Done("Replace", th[t].k, NoRet)]
           ELSE /\ plain' = plain
                /\ th' = [th EXCEPT ![t].pc = "ReplaceSet"]
        /\ UNCHANGED <<defaultExpiration, cleanupInterval, hashkey, keys, items, mu,
                       clock, tickerC, tickerOn, handle, abs, everSet, calls>>

(* c.set(k, x, d); Unlock; return nil *)
ReplaceSet(t) ==
    LET key == HashOf(t)
    IN  /\ th[t].pc = "ReplaceSet"
        /\ plain' =
              [plain EXCEPT
                 !.items = Put(@, key,
                               Item(th[t].x,
                                    SetExpiration(th[t].d, defaultExpiration, PlainNow))),
                 !.abs = Put(@, key,
                             AbsSetBy(th[t].k, th[t].x,
                                      SpecExpiry(th[t].d, defaultExpiration, PlainNow))),
                 !.mu.w = None]
        /\ th' = [th EXCEPT ![t] = Done("Replace", th[t].k, [NoRet EXCEPT !.ok = TRUE])]
        /\ UNCHANGED <<defaultExpiration, cleanupInterval, hashkey, keys, items, mu,
                       clock, tickerC, tickerOn, handle, abs, everSet, calls>>

(***************************************************************************)
(* The clock, the janitor goroutine, its ticker and the finalizer.         *)
(***************************************************************************)
Tick ==
    /\ clock < MaxTime
    /\ clock' = clock + 1
    /\ UNCHANGED <<defaultExpiration, cleanupInterval, plain, hashkey, keys, items, mu, th, tickerC,
                   tickerOn, handle, abs, everSet, calls>>

(* janitor.Run: ticker := time.NewTicker(j.Interval) *)
JanitorRun ==
    /\ th[Janitor].pc = "Run"
    /\ tickerOn' = TRUE
    /\ th' = [th EXCEPT ![Janitor].pc = "select"]
    /\ UNCHANGED <<defaultExpiration, cleanupInterval, plain, hashkey, keys, items, mu, clock, tickerC,
                   handle, abs, everSet, calls>>

(* The runtime's timer: a tick is sent unless one is already pending. *)
TickerFire ==
    /\ tickerOn
    /\ tickerC = 0
    /\ tickerC' = 1
    /\ UNCHANGED <<defaultExpiration, cleanupInterval, plain, hashkey, keys, items, mu, clock, th,
                   tickerOn, handle, abs, everSet, calls>>

(* A janitor that sweeps on a pending tick and leaves the tick pending. *)
JanitorTickKeepsTick ==
    /\ th[Janitor].pc = "select"
    /\ tickerC = 1
    /\ th' = [th EXCEPT ![Janitor] = SweepStart(Janitor)]
    /\ UNCHANGED <<defaultExpiration, cleanupInterval, plain, hashkey, keys,
                   items, mu, clock, tickerC, tickerOn, handle, abs, everSet, calls>>

(* A janitor that receives the tick and does not sweep. *)
JanitorTickNoSweep ==
    /\ th[Janitor].pc = "select"
    /\ tickerC = 1
    /\ tickerC' = 0
    /\ UNCHANGED <<defaultExpiration, cleanupInterval, plain, hashkey, keys,
                   items, mu, clock, th, tickerOn, handle, abs, everSet, calls>>

(* case <-ticker.C: c.DeleteExpired() *)
JanitorTick ==
    /\ th[Janitor].pc = "select"
    /\ tickerC = 1
    /\ tickerC' = 0
    /\ th' = [th EXCEPT ![Janitor] = SweepStart(Janitor)]
    /\ UNCHANGED <<defaultExpiration, cleanupInterval, plain, hashkey, keys, items, mu, clock, tickerOn,
                   handle, abs, everSet, calls>>

(* The outward handle becomes unreachable: its finalizer, stopJanitor,     *)
(* blocks sending on the unbuffered stop channel.                          *)
Unreachable ==
    /\ handle = "reachable"
    /\ th[Janitor].pc # "none"
    /\ handle' = "finalizing"
    /\ UNCHANGED <<defaultExpiration, cleanupInterval, plain, hashkey, keys, items, mu, clock, th,
                   tickerC, tickerOn, abs, everSet, calls>>

(* A stop case that stops the ticker and goes on selecting. *)
JanitorStopNoReturn ==
    /\ th[Janitor].pc = "select"
    /\ handle = "finalizing"
    /\ handle' = "finalized"
    /\ tickerOn' = FALSE
    /\ UNCHANGED <<defaultExpiration, cleanupInterval, plain, hashkey, keys,
                   items, mu, clock, th, tickerC, abs, everSet, calls>>

(* case <-j.stop: ticker.Stop(); return *)
JanitorStop ==
    /\ th[Janitor].pc = "select"
    /\ handle = "finalizing"
    /\ handle' = "finalized"
    /\ tickerOn' = FALSE
    /\ th' = [th EXCEPT ![Janitor].pc = "stopped"]
    /\ UNCHANGED <<defaultExpiration, cleanupInterval, plain, hashkey, keys, items, mu, clock, tickerC,
                   abs, everSet, calls>>

(***************************************************************************)
(* The specifications.                                                     *)
(***************************************************************************)
Durations == {NoExpiration, DefaultExpiration, 1}

(* The durations of the one caller: negative, the two sentinels, positive *)
(* below and at the default the caches of these runs are made with.       *)
TTLs == {-2, NoExpiration, DefaultExpiration, 1, 2}

(* The value the next call stores. *)
NextValue == calls + 1

(* Two keys in two shards. *)
TwoKeys == { Key("uint64", 2), Key("int32", -1) }

(***************************************************************************)
(* Spec: NumThreads goroutines calling concurrently; no janitor.           *)
(***************************************************************************)
Init == InitWith({2}, {0}, {0}, {TwoKeys})

Next ==
    \/ \E t \in Threads, k \in keys, d \in {NoExpiration, 1} :
          SetCall(t, k, NextValue, d)
    \/ \E t \in Threads : SetLock(t)
    \/ \E t \in Threads : SetStore(t)
    \/ \E t \in Threads, k \in keys : GetCall(t, k)
    \/ \E t \in Threads : GetRLock(t)
    \/ \E t \in Threads : GetRead(t)
    \/ \E t \in Threads, k \in keys : DeleteCall(t, k)
    \/ \E t \in Threads : DeleteLock(t)
    \/ \E t \in Threads : DeleteEntry(t)
    \/ \E t \in Threads : DeleteExpiredCall(t)
    \/ \E t \in Threads : SweepLock(t)
    \/ \E t \in Threads : SweepScan(t)
    \/ \E t \in Threads : ItemCountCall(t)
    \/ \E t \in Threads : CountRLock(t)
    \/ \E t \in Threads : CountAdd(t)
    \/ \E t \in Threads : FlushCall(t)
    \/ \E t \in Threads : FlushLock(t)
    \/ \E t \in Threads : FlushShard(t)
    \/ \E t \in Threads, k \in keys, d \in {NoExpiration, 1} :
          AddCall(t, k, NextValue, d)
    \/ \E t \in Threads : AddLock(t)
    \/ \E t \in Threads : AddGet(t)
    \/ \E t \in Threads : AddSet(t)
    \/ Tick

Spec == Init /\ [][Next]_vars

(***************************************************************************)
(* SpecSeq: one caller, every operation, no janitor.                       *)
(***************************************************************************)
Caller == 1

InitSeq == InitWith({0, 2}, {0}, {0}, Universes)

NextSeq ==
    \/ \E k \in keys, d \in TTLs : SetCall(Caller, k, NextValue, d)
    \/ \E k \in keys : SetDefaultCall(Caller, k, NextValue)
    \/ SetLock(Caller)
    \/ SetStore(Caller)
    \/ \E k \in keys : GetCall(Caller, k)
    \/ GetRLock(Caller)
    \/ GetRead(Caller)
    \/ \E k \in keys : DeleteCall(Caller, k)
    \/ DeleteLock(Caller)
    \/ DeleteEntry(Caller)
    \/ DeleteExpiredCall(Caller)
    \/ SweepLock(Caller)
    \/ SweepScan(Caller)
    \/ ItemCountCall(Caller)
    \/ CountRLock(Caller)
    \/ CountAdd(Caller)
    \/ FlushCall(Caller)
    \/ FlushLock(Caller)
    \/ FlushShard(Caller)
    \/ Tick

SpecSeq == InitSeq /\ [][NextSeq]_vars

(***************************************************************************)
(* SpecJanitor: one caller beside the janitor and the finalizer.           *)
(***************************************************************************)
InitJanitor == InitWith({0, 2}, {-1, 0, 1}, {0}, {TwoKeys})

NextJanitor ==
    \/ \E k \in keys, d \in Durations : SetCall(Caller, k, NextValue, d)
    \/ SetLock(Caller)
    \/ SetStore(Caller)
    \/ \E k \in keys : GetCall(Caller, k)
    \/ GetRLock(Caller)
    \/ GetRead(Caller)
    \/ \E k \in keys : DeleteCall(Caller, k)
    \/ DeleteLock(Caller)
    \/ DeleteEntry(Caller)
    \/ ItemCountCall(Caller)
    \/ CountRLock(Caller)
    \/ CountAdd(Caller)
    \/ FlushCall(Caller)
    \/ FlushLock(Caller)
    \/ FlushShard(Caller)
    \/ DeleteExpiredCall(Caller)
    \/ \E p \in {Caller, Janitor} : SweepLock(p)
    \/ \E p \in {Caller, Janitor} : SweepScan(p)
    \/ Tick
    \/ JanitorRun
    \/ TickerFire
    \/ JanitorTick
    \/ Unreachable
    \/ JanitorStop

SpecJanitor == InitJanitor /\ [][NextJanitor]_vars

(***************************************************************************)
(* SpecOwn: NumThreads goroutines, each calling Set, Get and Delete on a   *)
(* key of its own, the keys in distinct shards, and any of them calling    *)
(* DeleteExpired, ItemCount and Flush.                                     *)
(***************************************************************************)
OwnKey(t) == Key("uint64", t)

InitOwn == InitWith({2}, {0}, {0}, {{OwnKey(t) : t \in Threads}})

NextOwn ==
    \/ \E t \in Threads, d \in {NoExpiration, 1} :
          SetCall(t, OwnKey(t), NextValue, d)
    \/ \E t \in Threads : SetLock(t)
    \/ \E t \in Threads : SetStore(t)
    \/ \E t \in Threads : GetCall(t, OwnKey(t))
    \/ \E t \in Threads : GetRLock(t)
    \/ \E t \in Threads : GetRead(t)
    \/ \E t \in Threads : DeleteCall(t, OwnKey(t))
    \/ \E t \in Threads : DeleteLock(t)
    \/ \E t \in Threads : DeleteEntry(t)
    \/ \E t \in Threads : DeleteExpiredCall(t)
    \/ \E t \in Threads : SweepLock(t)
    \/ \E t \in Threads : SweepScan(t)
    \/ \E t \in Threads : ItemCountCall(t)
    \/ \E t \in Threads : CountRLock(t)
    \/ \E t \in Threads : CountAdd(t)
    \/ \E t \in Threads : FlushCall(t)
    \/ \E t \in Threads : FlushLock(t)
    \/ \E t \in Threads : FlushShard(t)
    \/ Tick

SpecOwn == InitOwn /\ [][NextOwn]_vars

(***************************************************************************)
(* SpecStop: a caller storing entries beside the janitor until the handle  *)
(* becomes unreachable.  The scheduler runs every goroutine that can take  *)
(* a step, and a select with several cases ready takes each of them in     *)
(* turn: the stop case of the janitor's select is taken if it is ready     *)
(* again and again.                                                        *)
(***************************************************************************)
InitStop == InitWith({2}, {1}, {0}, {TwoKeys})

NextStop ==
    \/ \E k \in keys : SetCall(Caller, k, NextValue, 1)
    \/ SetLock(Caller)
    \/ SetStore(Caller)
    \/ SweepLock(Janitor)
    \/ SweepScan(Janitor)
    \/ Tick
    \/ JanitorRun
    \/ TickerFire
    \/ JanitorTick
    \/ Unreachable
    \/ JanitorStop

FairStop ==
    /\ WF_vars(SetLock(Caller))
    /\ WF_vars(SetStore(Caller))
    /\ WF_vars(JanitorRun)
    /\ WF_vars(SweepLock(Janitor))
    /\ WF_vars(SweepScan(Janitor))
    /\ SF_vars(JanitorStop)

SpecStop == InitStop /\ [][NextStop]_vars /\ FairStop

(***************************************************************************)
(* SpecSweep: the same goroutines under the same scheduler, with a ticker  *)
(* that keeps firing and a janitor that takes the tick it is sent.         *)
(***************************************************************************)
InitSweep == InitStop

NextSweep == NextStop

FairSweep ==
    /\ FairStop
    /\ WF_vars(TickerFire)
    /\ WF_vars(JanitorTick)

SpecSweep == InitSweep /\ [][NextSweep]_vars /\ FairSweep

(***************************************************************************)
(* SpecKeys: one caller storing, reading and deleting one key, for every   *)
(* key of every integer type.                                              *)
(***************************************************************************)
InitKeys == InitWith({2}, {0}, {0}, { {k} : k \in IntegerKeys })

NextKeys ==
    \/ \E k \in keys : SetCall(Caller, k, NextValue, NoExpiration)
    \/ SetLock(Caller)
    \/ SetStore(Caller)
    \/ \E k \in keys : GetCall(Caller, k)
    \/ GetRLock(Caller)
    \/ GetRead(Caller)
    \/ \E k \in keys : DeleteCall(Caller, k)
    \/ DeleteLock(Caller)
    \/ DeleteEntry(Caller)

SpecKeys == InitKeys /\ [][NextKeys]_vars

(***************************************************************************)
(* SpecPanic: two goroutines calling with a key of a supported type and    *)
(* with a key of a type keyToHash has no case for.                         *)
(***************************************************************************)
Unsupported == Key("float64", 1)

SomeKeys == { Key("uint64", 2), Unsupported }

InitPanic == InitWith({2}, {0}, {0}, {SomeKeys})

NextPanic ==
    \/ \E t \in Threads :
         \/ \E k \in keys : SetCall(t, k, NextValue, 1)
         \/ SetLock(t)
         \/ SetStore(t)
         \/ \E k \in keys : GetCall(t, k)
         \/ GetRLock(t)
         \/ GetRead(t)
         \/ \E k \in keys : DeleteCall(t, k)
         \/ DeleteLock(t)
         \/ DeleteEntry(t)
         \/ \E k \in keys : AddCall(t, k, NextValue, 1)
         \/ AddLock(t)
         \/ AddGet(t)
         \/ AddSet(t)
    \/ Tick

SpecPanic == InitPanic /\ [][NextPanic]_vars

(* One key. *)
OneKey == {Key("string", <<1>>)}

(***************************************************************************)
(* SpecLazy: two goroutines calling Set, Get and DeleteExpired on the      *)
(* unsharded cache, made by New or by NewLazy with a timeNowInterval of 2. *)
(***************************************************************************)
Intervals == {0, 2}

InitLazy ==
    /\ keys = OneKey
    /\ cleanupInterval = 0
    /\ \E ti \in Intervals : plain = IF ti > 0 THEN LazyInit(ti, 1) ELSE PlainInit
    /\ defaultExpiration = newCacheDefault(2)
    /\ hashkey = 0
    /\ items = [i \in Shards |-> EmptyMap]
    /\ mu = [i \in Shards |-> Unlocked]
    /\ clock = 1
    /\ th = [p \in Procs |->
               IF p = Janitor THEN [Idle EXCEPT !.pc = JanitorStart(cleanupInterval)]
               ELSE Idle]
    /\ tickerC = 0
    /\ tickerOn = FALSE
    /\ handle = "reachable"
    /\ abs = EmptyMap
    /\ everSet = {}
    /\ calls = 0

NextLazy ==
    \/ \E t \in Threads :
         \/ \E k \in keys, d \in {NoExpiration, 1} : PlainSetCall(t, k, NextValue, d)
         \/ PlainSetLock(t)
         \/ PlainSetStore(t)
         \/ \E k \in keys : PlainGetCall(t, k)
         \/ PlainGetRLock(t)
         \/ PlainGetRead(t)
         \/ PlainGetCheck(t)
         \/ PlainSweepCall(t)
         \/ PlainSweepLock(t)
         \/ PlainSweepScan(t)
         \/ NowExact(t)
         \/ NowSelect(t)
         \/ NowStore(t)
         \/ NowLoad(t)
    \/ LazyTickerFire
    \/ Tick

SpecLazy == InitLazy /\ [][NextLazy]_vars

(***************************************************************************)
(* Add and Replace against the writers they race with: two goroutines on   *)
(* one key, in the sharded cache and in the unsharded one.                 *)
(***************************************************************************)
InitAdd == InitWith({2}, {0}, {0}, {OneKey})

NextAdd ==
    \/ \E t \in Threads :
         \/ \E k \in keys, d \in {NoExpiration, 1} : AddCall(t, k, NextValue, d)
         \/ AddLock(t)
         \/ AddGet(t)
         \/ AddSet(t)
         \/ \E k \in keys : SetCall(t, k, NextValue, 1)
         \/ SetLock(t)
         \/ SetStore(t)
         \/ \E k \in keys : DeleteCall(t, k)
         \/ DeleteLock(t)
         \/ DeleteEntry(t)
         \/ \E k \in keys, d \in {NoExpiration, 1} : PlainAddCall(t, k, NextValue, d)
         \/ PlainAddLock(t)
         \/ PlainAddGet(t)
         \/ PlainAddSet(t)
         \/ \E k \in keys, d \in {NoExpiration, 1} : ReplaceCall(t, k, NextValue, d)
         \/ ReplaceLock(t)
         \/ ReplaceGet(t)
         \/ ReplaceSet(t)
         \/ \E k \in keys : PlainSetCall(t, k, NextValue, 1)
         \/ PlainSetLock(t)
         \/ PlainSetStore(t)
         \/ \E k \in keys : PlainDeleteCall(t, k)
         \/ PlainDeleteLock(t)
         \/ PlainDeleteEntry(t)
    \/ Tick

SpecAdd == InitAdd /\ [][NextAdd]_vars

(***************************************************************************)
(* The unsharded cache called with supported and unsupported keys: Set,    *)
(* Get, Delete, Add, Replace and DeleteExpired by two goroutines, each of  *)
(* which recovers from a panic and goes on calling.                        *)
(***************************************************************************)
InitPlainPanic == InitWith({2}, {0}, {0}, {SomeKeys})

NextPlainPanic ==
    \/ \E t \in Threads :
         \/ \E k \in keys : PlainSetCall(t, k, NextValue, 1)
         \/ PlainSetLock(t)
         \/ PlainSetStore(t)
         \/ \E k \in keys : PlainGetCall(t, k)
         \/ PlainGetRLock(t)
         \/ PlainGetRead(t)
         \/ NowExact(t)
         \/ PlainGetCheck(t)
         \/ \E k \in keys : PlainDeleteCall(t, k)
         \/ PlainDeleteLock(t)
         \/ PlainDeleteEntry(t)
         \/ \E k \in keys : PlainAddCall(t, k, NextValue, NoExpiration)
         \/ PlainAddLock(t)
         \/ PlainAddGet(t)
         \/ PlainAddSet(t)
         \/ \E k \in keys : ReplaceCall(t, k, NextValue, NoExpiration)
         \/ ReplaceLock(t)
         \/ ReplaceGet(t)
         \/ ReplaceSet(t)
         \/ PlainSweepCall(t)
         \/ PlainSweepLock(t)
         \/ PlainSweepScan(t)
    \/ Tick

SpecPlainPanic == InitPlainPanic /\ [][NextPlainPanic]_vars

(***************************************************************************)
(* ItemCount beside writers: a cache built by New(0, 0) that holds one     *)
(* entry, as a Set(k, x, NoExpiration) that has returned left it, and two  *)
(* goroutines that call Set, Delete, Flush and ItemCount on two keys in    *)
(* two shards.                                                             *)
(***************************************************************************)
InitCount ==
    /\ keys = TwoKeys
    /\ cleanupInterval = 0
    /\ plain = PlainInit
    /\ defaultExpiration = newCacheDefault(0)
    /\ hashkey = 0
    /\ \E k \in keys :
          LET key == keyToHash(k, hashkey)
              x == MaxCalls + 1
          IN  /\ items = [i \in Shards |->
                            IF i = ShardOf(key)
                            THEN Put(EmptyMap, key,
                                     Item(x, SetExpiration(NoExpiration,
                                                           defaultExpiration, 1)))
                            ELSE EmptyMap]
              /\ abs = Put(EmptyMap, key,
                           AbsSetBy(k, x, SpecExpiry(NoExpiration,
                                                     defaultExpiration, 1)))
              /\ everSet = {k}
    /\ mu = [i \in Shards |-> Unlocked]
    /\ clock = 1
    /\ th = [p \in Procs |->
               IF p = Janitor
               THEN [Idle EXCEPT !.pc = JanitorStart(cleanupInterval)]
               ELSE Idle]
    /\ tickerC = 0
    /\ tickerOn = FALSE
    /\ handle = "reachable"
    /\ calls = 0

NextCount ==
    \E t \in Threads :
       \/ \E k \in keys : SetCall(t, k, NextValue, NoExpiration)
       \/ SetLock(t)
       \/ SetStore(t)
       \/ \E k \in keys : DeleteCall(t, k)
       \/ DeleteLock(t)
       \/ DeleteEntry(t)
       \/ FlushCall(t)
       \/ FlushLock(t)
       \/ FlushShard(t)
       \/ ItemCountCall(t)
       \/ CountRLock(t)
       \/ CountAdd(t)

SpecCount == InitCount /\ [][NextCount]_vars

(***************************************************************************)
(* Set with small and with the largest durations: time.Duration is an      *)
(* int64 of nanoseconds, and nanoTime() + d.Nanoseconds() is int64         *)
(* arithmetic.  One goroutine calls Set, Get and DeleteExpired on one key  *)
(* while the clock advances.                                               *)
(***************************************************************************)
MaxDuration == (Mod \div 2) - 1

WideTTLs == {1, MaxDuration}

InitWide == InitWith({0}, {0}, {0}, {OneKey})

NextWide ==
    \/ \E k \in keys, d \in WideTTLs : SetCall(Caller, k, NextValue, d)
    \/ SetLock(Caller)
    \/ SetStore(Caller)
    \/ \E k \in keys : GetCall(Caller, k)
    \/ GetRLock(Caller)
    \/ GetRead(Caller)
    \/ DeleteExpiredCall(Caller)
    \/ SweepLock(Caller)
    \/ SweepScan(Caller)
    \/ Tick

SpecWide == InitWide /\ [][NextWide]_vars

(***************************************************************************)
(* Properties of the cache, by the number of the statement they settle.    *)
(***************************************************************************)
Present(h) == h \in DOMAIN items[ShardOf(h)]

Stored(h) == items[ShardOf(h)][h]

Found(x) == [v |-> x, ok |-> TRUE, n |-> 0]

Returned(t, op) == th[t].pc = "done" /\ th[t].op = op

SameHash(k1, k2) == keyToHash(k1, hashkey) = keyToHash(k2, hashkey)

(* C1: a Get whose hash was last written by a Set that never expires or    *)
(* whose expiry (set time + ttl) has not passed returns that Set's value   *)
(* and true, for keys of every supported type.                             *)
C1_SetThenGet ==
    [][\A t \in Threads :
         GetRead(t) =>
           LET h == HashOf(t)
           IN  (h \in AbsSetHashes /\ SpecLive(abs[h].e, clock))
                  => th'[t].ret = Found(abs[h].v)]_vars

C1_Witness ==
    \E t \in Threads :
       /\ Returned(t, "Get")
       /\ HashOf(t) \in AbsSetHashes
       /\ abs[HashOf(t)].e = clock
       /\ th[t].ret = Found(abs[HashOf(t)].v)

(* C2 as stated: a Get of a key that was itself never passed to Set,       *)
(* SetDefault or Add returns not-found, whatever other keys were stored.   *)
C2_NeverSetKey ==
    \A t \in Threads :
       (Returned(t, "Get") /\ th[t].k \notin everSet) => ~th[t].ret.ok

(* C2 amended: a Get of a key returns not-found when no key with the same  *)
(* hash was ever passed to Set, SetDefault or Add.                         *)
C2_NeverSetHash ==
    \A t \in Threads :
       (Returned(t, "Get") /\ \A k2 \in everSet : ~SameHash(k2, th[t].k))
          => ~th[t].ret.ok

C2_Witness ==
    \E t \in Threads :
       /\ Returned(t, "Get")
       /\ ~th[t].ret.ok
       /\ \A k2 \in everSet : ~SameHash(k2, th[t].k)
       /\ \E k2 \in everSet : Present(keyToHash(k2, hashkey))

(* C3: once the clock is past the expiry (set time + d) of the Set that    *)
(* last wrote the hash, Get returns not-found, swept or not.               *)
C3_ExpiredNotFound ==
    [][\A t \in Threads :
         GetRead(t) =>
           LET h == HashOf(t)
           IN  (h \in AbsSetHashes /\ abs[h].e > 0 /\ clock > abs[h].e)
                  => ~th'[t].ret.ok]_vars

C3_Witness ==
    \E t \in Threads :
       LET h == HashOf(t)
       IN  /\ Returned(t, "Get")
           /\ ~th[t].ret.ok
           /\ h \in AbsSetHashes
           /\ abs[h].sw = "none"
           /\ Present(h)
           /\ Stored(h).Expiration > 0
           /\ Stored(h).Expiration < clock

(* C4: when a DeleteExpired that ran alone returns, the table holds what   *)
(* it held at the call less the entries expired at the sweep's timestamp:  *)
(* the count fell by their number, every entry live at the timestamp is    *)
(* still stored unchanged, and every expired one is gone.                  *)
C4_SweepRemovesExpiredOnly ==
    \A t \in Threads :
       Returned(t, "DeleteExpired") =>
          /\ Physical = th[t].g.n - th[t].g.x
          /\ \A h \in AbsSetHashes :
                IF SpecLive(abs[h].e, th[t].now)
                THEN Present(h) /\ Stored(h) = Item(abs[h].v, abs[h].e)
                ELSE ~Present(h)

C4_Witness ==
    \E t \in Threads :
       /\ Returned(t, "DeleteExpired")
       /\ th[t].g.x >= 1
       /\ \E h \in AbsSetHashes : Present(h)
       /\ \E h \in AbsSetHashes : ~Present(h)

(* C5: Delete removes the entry of the key's hash whatever its expiration  *)
(* and touches nothing else (so deleting an absent key changes nothing),   *)
(* and a Get of a hash whose last write is a Delete returns not-found.     *)
C5_Delete ==
    [][\A t \in Threads :
         LET h == HashOf(t)
         IN  /\ DeleteEntry(t) =>
                  /\ h \notin DOMAIN items'[ShardOf(h)]
                  /\ \A i \in Shards :
                        /\ DOMAIN items'[i] \subseteq DOMAIN items[i]
                        /\ \A j \in DOMAIN items[i] \ {h} :
                              j \in DOMAIN items'[i] /\ items'[i][j] = items[i][j]
             /\ GetRead(t) =>
                  ((h \in DOMAIN abs /\ abs[h].op = "Delete") => ~th'[t].ret.ok)]_vars

C5_Witness ==
    \E t \in Threads :
       LET h == HashOf(t)
       IN  /\ Returned(t, "Get")
           /\ ~th[t].ret.ok
           /\ h \in DOMAIN abs
           /\ abs[h].op = "Delete"
           /\ \E k2 \in everSet : SameHash(k2, th[t].k)

(* C6: when a Flush that ran alone returns every shard is empty; ItemCount *)
(* returns 0 while no hash has been Set since; and a Get of a hash whose   *)
(* last write is the Flush returns not-found.                              *)
C6_Flush ==
    \A t \in Threads :
       /\ Returned(t, "Flush") => \A i \in Shards : items[i] = EmptyMap
       /\ (Returned(t, "ItemCount") /\ AbsSetHashes = {}) => th[t].ret.n = 0
       /\ (Returned(t, "Get") /\ HashOf(t) \in DOMAIN abs
              /\ abs[HashOf(t)].op = "Flush") => ~th[t].ret.ok

C6_Witness ==
    \E t \in Threads :
       LET h == HashOf(t)
       IN  /\ Returned(t, "Get")
           /\ ~th[t].ret.ok
           /\ h \in DOMAIN abs
           /\ abs[h].op = "Flush"
           /\ abs[h].v # Nil
           /\ abs[h].e = 0

(* C10: a Get changes no shard's map, so an expired entry it reports as    *)
(* not-found stays stored; an entry leaves a map only in the critical      *)
(* section of a sweep, a Delete or a Flush; and ItemCount returns the      *)
(* number of entries Set and not since deleted, flushed or swept, the      *)
(* expired but unswept ones included and the swept ones not.               *)
Unswept == {h \in AbsSetHashes : abs[h].sw # "removed"}

C10_ExpiredStaysUntilSwept ==
    [][/\ \A t \in Threads :
            (GetCall(t, th'[t].k) \/ GetRLock(t) \/ GetRead(t)) => items' = items
       /\ \A i \in Shards :
            ~(DOMAIN items[i] \subseteq DOMAIN items'[i]) =>
               \E p \in Procs :
                  /\ mu[i].w = p
                  /\ th[p].pc \in {"SweepScan", "DeleteEntry", "FlushShard"}
       /\ \A t \in Threads :
            (th'[t].pc = "done" /\ th'[t].op = "ItemCount" /\ CountAdd(t))
               => th'[t].ret.n = Cardinality(Unswept)]_vars

C10_Witness ==
    \E t \in Threads :
       /\ Returned(t, "ItemCount")
       /\ th[t].ret.n = Cardinality(Unswept)
       /\ \E h \in Unswept :
             /\ Present(h)
             /\ GetExpired(Stored(h), clock)
             /\ abs[h].e > 0 /\ clock > abs[h].e

(* A goroutine is in a call; the step a goroutine in a call takes next. *)
InFlight(t) == th[t].pc \notin {"idle", "done", "panicked"}

Step(t) ==
    \/ SetLock(t) \/ SetStore(t)
    \/ GetRLock(t) \/ GetRead(t)
    \/ DeleteLock(t) \/ DeleteEntry(t)
    \/ SweepLock(t) \/ SweepScan(t)
    \/ CountRLock(t) \/ CountAdd(t)
    \/ FlushLock(t) \/ FlushShard(t)

NoDeadlock ==
    (\E t \in Threads : InFlight(t))
       => \E u \in Threads : InFlight(u) /\ ENABLED Step(u)

(* C7 as stated: goroutines working on keys of their own in distinct       *)
(* shards, beside sweeps, counts and flushes, never deadlock, and a Get of *)
(* a goroutine's own key returns the value of its last Set (not elapsed    *)
(* and not deleted by the goroutine since).                                *)
C7_OwnWritesAsStated ==
    [][\A t \in Threads :
         GetRead(t) =>
           LET h == HashOf(t)
           IN  (h \in DOMAIN abs /\ abs[h].op \in {"Set", "Flush"}
                   /\ abs[h].v # Nil /\ SpecLive(abs[h].e, clock))
                  => th'[t].ret = Found(abs[h].v)]_vars

(* C7 amended: they never deadlock, and a Get of a goroutine's own key     *)
(* returns the value of its last Set (not elapsed and not deleted since)   *)
(* provided no Flush has taken the key's shard since that Set.             *)
C7_OwnWrites ==
    /\ []NoDeadlock
    /\ [][\A t \in Threads :
            GetRead(t) =>
              LET h == HashOf(t)
              IN  (h \in DOMAIN abs /\ abs[h].op = "Set"
                      /\ SpecLive(abs[h].e, clock))
                     => th'[t].ret = Found(abs[h].v)]_vars

C7_Witness ==
    \E t \in Threads, u \in Threads :
       /\ t # u
       /\ Returned(t, "Get")
       /\ th[t].k = OwnKey(t)
       /\ HashOf(t) \in AbsSetHashes
       /\ th[t].ret = Found(abs[HashOf(t)].v)
       /\ th[u].pc \in {"SweepScan", "FlushShard"}

(* C8: whenever no writer holds a shard, the entry of a hash whose last    *)
(* write in the order of the lock is a Set is exactly that Set's value and *)
(* expiration (or has been swept as expired); a Get that finds a hash      *)
(* returns the value of the last Set in that order, and a Get finds a hash *)
(* whose last write in that order is a Set that has not elapsed.           *)
LastWriterStored ==
    \A h \in AbsSetHashes :
       mu[ShardOf(h)].w = None =>
          IF Present(h)
          THEN Stored(h) = Item(abs[h].v, abs[h].e)
          ELSE abs[h].sw = "removed"

C8_LastWriterWins ==
    /\ []LastWriterStored
    /\ [][\A t \in Threads :
            LET h == HashOf(t)
            IN  /\ (GetRead(t) /\ th'[t].ret.ok) =>
                      (h \in AbsSetHashes /\ th'[t].ret.v = abs[h].v)
                /\ (GetRead(t) /\ h \in AbsSetHashes
                       /\ SpecLive(abs[h].e, clock)) => th'[t].ret.ok]_vars

C8_Witness ==
    \E t \in Threads, u \in Threads :
       /\ t # u
       /\ Returned(t, "Set") /\ Returned(u, "Set")
       /\ th[t].k = th[u].k
       /\ calls = 2
       /\ Present(HashOf(t))
       /\ Stored(HashOf(t)).Object = 1
       /\ abs[HashOf(t)].v = 1

(* C9: an entry Set never to expire (NoExpiration, or the default duration *)
(* of a cache whose default is not positive) stays stored unchanged, is    *)
(* found by Get and is counted by ItemCount, through every tick of the     *)
(* clock and every sweep, the caller's or the janitor's, until a Delete or *)
(* another Set takes its shard's lock.                                     *)
NeverExpiring == {h \in AbsSetHashes : abs[h].e = 0}

NeverExpiringStored ==
    \A h \in NeverExpiring :
       mu[ShardOf(h)].w \notin Threads =>
          Present(h) /\ Stored(h) = Item(abs[h].v, 0)

C9_NoExpirationStays ==
    /\ []NeverExpiringStored
    /\ [][\A t \in Threads :
            /\ (GetRead(t) /\ HashOf(t) \in NeverExpiring)
                  => th'[t].ret = Found(abs[HashOf(t)].v)
            /\ (CountAdd(t) /\ th'[t].pc = "done")
                  => th'[t].ret.n >= Cardinality(NeverExpiring)]_vars

C9_Witness ==
    \E t \in Threads :
       LET h == HashOf(t)
       IN  /\ Returned(t, "Get")
           /\ h \in NeverExpiring
           /\ abs[h].sw = "kept"
           /\ th[t].ret = Found(abs[h].v)
           /\ th[Janitor].pc = "select"
           /\ tickerOn
           /\ calls = 2
           /\ clock = MaxTime

(* The shards whose lock a goroutine holds; the shard its critical section *)
(* is in.                                                                  *)
HeldBy(p) == {i \in Shards : mu[i].w = p \/ p \in mu[i].r}

Visiting(p) ==
    IF th[p].pc \in {"SweepScan", "CountAdd", "FlushShard"} THEN {th[p].i}
    ELSE IF th[p].pc \in {"SetStore", "GetRead", "DeleteEntry", "AddGet", "AddSet"}
         THEN {ShardOf(HashOf(p))}
         ELSE {}

(* C11: a goroutine, caller or janitor, holds the lock of at most one      *)
(* shard: a sweep, a count or a flush holds only the shard it is visiting  *)
(* and none between two shards, so a Set, Get or Delete whose shard no     *)
(* goroutine is visiting takes its lock at once.                           *)
C11_OneShardLock ==
    /\ \A p \in Procs :
          /\ Cardinality(HeldBy(p)) <= 1
          /\ HeldBy(p) = Visiting(p)
    /\ \A t \in Threads :
          (/\ th[t].pc \in {"SetLock", "GetRLock", "DeleteLock"}
           /\ \A p \in Procs \ {t} : ShardOf(HashOf(t)) \notin Visiting(p))
             => ENABLED (SetLock(t) \/ GetRLock(t) \/ DeleteLock(t))

C11_Witness ==
    \E t \in Threads :
       /\ th[Janitor].pc = "SweepScan"
       /\ th[Janitor].i = 1
       /\ HeldBy(Janitor) = {1}
       /\ th[t].pc \in {"SetStore", "GetRead", "DeleteEntry"}
       /\ HeldBy(t) = {0}

(* C12: a shard's map changes only in a step of the goroutine that holds   *)
(* the shard's exclusive lock (the store of Set and Add, the delete of     *)
(* Delete, the scan of DeleteExpired, the reset of Flush), and the         *)
(* exclusive lock is never held while a shared lock of the shard is.       *)
WriterExcludesReaders == \A i \in Shards : mu[i].w # None => mu[i].r = {}

(* A goroutine's state without its history. *)
Program(r) == [r EXCEPT !.g = NoGhost]

C12_MutationUnderLock ==
    /\ []WriterExcludesReaders
    /\ [][\A i \in Shards :
            items'[i] # items[i] =>
               /\ mu[i].w \in Procs
               /\ th'[mu[i].w] # th[mu[i].w]
               /\ \A p \in Procs \ {mu[i].w} : Program(th'[p]) = Program(th[p])]_vars

C12_Witness ==
    \E t \in Threads, u \in Threads :
       /\ th[t].pc = "AddSet"
       /\ mu[ShardOf(HashOf(t))].w = t
       /\ th[u].pc = "GetRLock"
       /\ ShardOf(HashOf(u)) = ShardOf(HashOf(t))

(* C13: the table always has the numShards shards it was made with; a hash *)
(* stored in shard i has i as its remainder by numShards, so it is in no   *)
(* other shard; and the critical section of a Set, Get or Delete is in the *)
(* shard of its key's hash, the same for the three.                        *)
C13_Routing ==
    /\ DOMAIN items = 0 .. (numShards - 1)
    /\ DOMAIN mu = DOMAIN items
    /\ \A i \in DOMAIN items : \A h \in DOMAIN items[i] : h % numShards = i
    /\ \A t \in Threads :
          th[t].pc \in {"SetStore", "GetRead", "DeleteEntry"} =>
             \A j \in DOMAIN mu :
                (mu[j].w = t \/ t \in mu[j].r)
                   <=> j = keyToHash(th[t].k, hashkey) % numShards

C13_Witness ==
    \E t \in Threads :
       /\ Returned(t, "Get")
       /\ th[t].ret.ok
       /\ \A i \in DOMAIN items : items[i] # EmptyMap

(* C14: a cache made with a positive cleanup interval starts with its one  *)
(* janitor goroutine running; one made with an interval of zero or less    *)
(* has no janitor, no ticker and no finalizer, ever, and an entry leaves   *)
(* its map only in the critical section of a caller's Delete,              *)
(* DeleteExpired or Flush.                                                 *)
NoJanitor ==
    cleanupInterval <= 0 =>
       /\ th[Janitor].pc = "none"
       /\ HeldBy(Janitor) = {}
       /\ ~tickerOn
       /\ tickerC = 0
       /\ handle # "finalizing"

C14_JanitorStart ==
    /\ cleanupInterval > 0 => th[Janitor].pc = "Run"
    /\ [](cleanupInterval > 0 => th[Janitor].pc # "none")
    /\ []NoJanitor
    /\ [][cleanupInterval <= 0 =>
            \A i \in Shards :
               ~(DOMAIN items[i] \subseteq DOMAIN items'[i]) =>
                  \E t \in Threads :
                     /\ mu[i].w = t
                     /\ th[t].op \in {"Delete", "DeleteExpired", "Flush"}
                     /\ th[t].pc \in {"DeleteEntry", "SweepScan", "FlushShard"}]_vars

C14_Witness ==
    /\ cleanupInterval <= 0
    /\ th[Janitor].pc = "none"
    /\ clock = MaxTime
    /\ \E h \in AbsSetHashes : Present(h) /\ GetExpired(Stored(h), clock)

(* C15: the janitor that has received the stop signal has stopped its      *)
(* ticker and stays stopped: it takes no further step, so it never sweeps  *)
(* again.  It receives the signal only in its select: a sweep in flight    *)
(* when the signal is sent goes on, shard after shard, to the last.        *)
JanitorStopped ==
    /\ th[Janitor].pc = "stopped" =>
          (handle = "finalized" /\ ~tickerOn /\ HeldBy(Janitor) = {})
    /\ handle = "finalized" => th[Janitor].pc = "stopped"

C15_StoppedForever ==
    /\ []JanitorStopped
    /\ [][/\ th[Janitor].pc = "stopped" =>
                (th'[Janitor] = th[Janitor] /\ tickerOn' = tickerOn
                    /\ handle' = handle)
          /\ (th[Janitor].pc \in {"SweepLock", "SweepScan"}
                 /\ th'[Janitor] # th[Janitor]) =>
                /\ handle' = handle
                /\ IF th[Janitor].pc = "SweepScan" /\ ~MoreShards(th[Janitor].i)
                   THEN th'[Janitor].pc = "select"
                   ELSE th'[Janitor].pc \in {"SweepLock", "SweepScan"}
          /\ handle' = "finalized" => th[Janitor].pc \in {"select", "stopped"}]_vars

C15_Witness ==
    /\ th[Janitor].pc = "stopped"
    /\ handle = "finalized"
    /\ tickerC = 1
    /\ clock = MaxTime
    /\ \E h \in AbsSetHashes : Present(h) /\ GetExpired(Stored(h), clock)

(* C16: once the handle of a cache with a janitor is unreachable and its   *)
(* finalizer sends on the stop channel, the janitor eventually receives    *)
(* the signal and returns, which is when the finalizer's send returns.     *)
C16_StopTerminates ==
    (handle = "finalizing")
       ~> (handle = "finalized" /\ th[Janitor].pc = "stopped" /\ ~tickerOn)

C16_Witness ==
    /\ handle = "finalizing"
    /\ th[Janitor].pc = "select"
    /\ tickerC = 1
    /\ ENABLED JanitorTick
    /\ ENABLED JanitorStop

(* C17: the expiration a Set computes from its duration d, called at time  *)
(* clock on a cache whose default is defaultExpiration: clock + d for a    *)
(* positive d whatever the default, 0 (never) for a negative d, and for    *)
(* DefaultExpiration what the default itself gives, which is 0 when the    *)
(* default is not positive.  SetDefault computes what Set with             *)
(* DefaultExpiration and Set with the default do, and the store of Set     *)
(* writes the expiration computed at the call.                             *)
Resolved(d) ==
    IF d > 0 THEN clock + d
    ELSE IF d < 0 THEN 0
    ELSE IF defaultExpiration > 0 THEN clock + defaultExpiration
    ELSE 0

C17_TTLResolution ==
    [][\A t \in Threads :
         /\ \A k \in keys, d \in TTLs :
               SetCall(t, k, NextValue, d) => th'[t].e = Resolved(d)
         /\ \A k \in keys :
               SetDefaultCall(t, k, NextValue) =>
                  /\ th'[t].e = Resolved(DefaultExpiration)
                  /\ th'[t].e = Resolved(defaultExpiration)
         /\ SetStore(t) =>
               items'[ShardOf(HashOf(t))][HashOf(t)] = Item(th[t].x, th[t].e)]_vars

C17_Witness ==
    \E t \in Threads :
       /\ Returned(t, "Set")
       /\ defaultExpiration = 2
       /\ Present(HashOf(t))
       /\ Stored(HashOf(t)).Expiration = clock + 2
       /\ \E h \in AbsSetHashes : Present(h) /\ Stored(h).Expiration = 0


(* History: the last write to hash h, in lock order, is a Set whose expiry *)
(* has not passed at now.                                                  *)
LiveIn(hist, h, now) ==
    /\ h \in DOMAIN hist
    /\ hist[h].op = "Set"
    /\ SpecLive(hist[h].e, now)

AsAdded(t, now) == Item(th[t].x, SpecExpiry(th[t].d, defaultExpiration, now))

NilError == [NoRet EXCEPT !.ok = TRUE]

(* C18: Add, in the sharded cache and in the unsharded one: when the key   *)
(* has a live entry, it returns an error and leaves the map as it was;     *)
(* when the key is absent or its entry has expired, it stores the value    *)
(* with the expiration its ttl resolves to and returns nil.                *)
C18_Add ==
    [][\A t \in Threads :
         /\ AddGet(t) =>
              IF LiveIn(abs, HashOf(t), clock)
              THEN /\ th'[t] = Done("Add", th[t].k, NoRet)
                   /\ items' = items
              ELSE th'[t].pc = "AddSet"
         /\ AddSet(t) =>
              /\ th'[t] = Done("Add", th[t].k, NilError)
              /\ items' = [items EXCEPT ![ShardOf(HashOf(t))] =
                             Put(@, HashOf(t), AsAdded(t, clock))]
         /\ PlainAddGet(t) =>
              IF LiveIn(plain.abs, HashOf(t), PlainNow)
              THEN /\ th'[t] = Done("PlainAdd", th[t].k, NoRet)
                   /\ plain'.items = plain.items
              ELSE th'[t].pc = "PlainAddSet"
         /\ PlainAddSet(t) =>
              /\ th'[t] = Done("PlainAdd", th[t].k, NilError)
              /\ plain'.items = Put(plain.items, HashOf(t), AsAdded(t, PlainNow))]_vars

(* An Add has replaced an entry that was still stored but had expired, and *)
(* another Add has been refused.                                           *)
C18_Witness ==
    \E t \in Threads, u \in Threads :
      /\ Returned(t, "Add") /\ th[t].ret.ok
      /\ Present(HashOf(t)) /\ Stored(HashOf(t)).Expiration = 0
      /\ clock = MaxTime
      /\ calls = MaxCalls
      /\ Returned(u, "PlainAdd") /\ ~th[u].ret.ok

(* C19: Replace: when the key has no live entry (absent, or stored but     *)
(* expired), it returns an error and leaves the map as it was; otherwise   *)
(* it overwrites value and expiration and returns nil.                     *)
C19_Replace ==
    [][\A t \in Threads :
         /\ ReplaceGet(t) =>
              IF LiveIn(plain.abs, HashOf(t), PlainNow)
              THEN th'[t].pc = "ReplaceSet"
              ELSE /\ th'[t] = Done("Replace", th[t].k, NoRet)
                   /\ plain'.items = plain.items
         /\ ReplaceSet(t) =>
              /\ th'[t] = Done("Replace", th[t].k, NilError)
              /\ plain'.items = Put(plain.items, HashOf(t), AsAdded(t, PlainNow))]_vars

(* A Replace has been refused on an entry that is stored but expired.      *)
C19_Witness ==
    \E t \in Threads :
      /\ Returned(t, "Replace") /\ ~th[t].ret.ok
      /\ HashOf(t) \in DOMAIN plain.items
      /\ GetExpired(plain.items[HashOf(t)], PlainNow)

EntryOf(m, h) == IF h \in DOMAIN m THEN <<m[h]>> ELSE <<>>

(* From the check to the write the caller holds the lock exclusively, and  *)
(* what is stored is what the last writer in lock order wrote.             *)
CheckedUnderLock ==
    \A t \in Threads :
      /\ th[t].pc \in {"AddGet", "AddSet"} =>
           /\ mu[ShardOf(HashOf(t))] = [Unlocked EXCEPT !.w = t]
           /\ \A h \in DOMAIN items[ShardOf(HashOf(t))] :
                h \in DOMAIN abs /\ abs[h].op = "Set" /\ abs[h].v = Stored(h).Object
      /\ th[t].pc = "AddSet" => ~LiveIn(abs, HashOf(t), clock)
      /\ th[t].pc \in {"PlainAddGet", "PlainAddSet", "ReplaceGet", "ReplaceSet"} =>
           /\ plain.mu = [Unlocked EXCEPT !.w = t]
           /\ \A h \in DOMAIN plain.items :
                /\ h \in DOMAIN plain.abs
                /\ plain.abs[h].op = "Set"
                /\ plain.abs[h].v = plain.items[h].Object
      /\ th[t].pc = "PlainAddSet" => ~LiveIn(plain.abs, HashOf(t), PlainNow)
      /\ th[t].pc = "ReplaceSet" => HashOf(t) \in DOMAIN plain.items

(* Of two Adds of one absent key, made before any expiry, one succeeds.    *)
OneAddWins ==
    \A t \in Threads : \A u \in Threads \ {t} :
      \A op \in {"Add", "PlainAdd"} :
        (/\ Returned(t, op) /\ Returned(u, op)
         /\ th[t].k = th[u].k
         /\ calls = 2 /\ clock = 1)
          => th[t].ret.ok # th[u].ret.ok

(* Between the check and the write, the key's entry and its last write in  *)
(* lock order change only by the caller's own write.                       *)
NoWriteBetween ==
    \A t \in Threads :
      /\ (/\ th[t].pc = "AddSet"
          /\ \/ EntryOf(items'[ShardOf(HashOf(t))], HashOf(t))
                  # EntryOf(items[ShardOf(HashOf(t))], HashOf(t))
             \/ EntryOf(abs', HashOf(t)) # EntryOf(abs, HashOf(t)))
           => AddSet(t)
      /\ (/\ th[t].pc \in {"PlainAddSet", "ReplaceSet"}
          /\ \/ EntryOf(plain'.items, HashOf(t)) # EntryOf(plain.items, HashOf(t))
             \/ EntryOf(plain'.abs, HashOf(t)) # EntryOf(plain.abs, HashOf(t)))
           => (PlainAddSet(t) \/ ReplaceSet(t))

C20_OneAddWon ==
    \E t \in Threads : \E u \in Threads \ {t} :
      /\ Returned(t, "Add") /\ Returned(u, "Add")
      /\ th[t].k = th[u].k
      /\ calls = 2 /\ clock = 1
      /\ th[t].ret.ok /\ ~th[u].ret.ok
      /\ Stored(HashOf(t)).Object = 1


(* The hashes under which anything is stored. *)
StoredHashes == UNION { DOMAIN items[i] : i \in Shards }

(* The key's value as an unsigned word of the key's own width. *)
ZeroExtended(k) == IF k.val >= 0 THEN k.val ELSE 2 ^ Width(k.type) + k.val

(* The key's value as an unsigned word of the hash's width: the value      *)
(* itself when it is not negative, and 2^64 + value when it is, which is   *)
(* the sign-extended bit pattern.                                          *)
Converted(k) == IF k.val >= 0 THEN k.val ELSE Mod + k.val

(* C21 as stated: an integer key of any width and sign is stored under its *)
(* zero-extended value.                                                    *)
C21_ZeroExtended ==
    \A t \in Threads :
      Returned(t, "Set") => StoredHashes = {ZeroExtended(th[t].k)}

(* C21: a uint64 key is stored under the key itself, and a key of another  *)
(* integer type under its value converted to uint64: the value itself when *)
(* it is not negative, the sign-extended (two's-complement) word when it   *)
(* is negative.                                                            *)
C21_IntegerHash ==
    \A t \in Threads :
      Returned(t, "Set") =>
        /\ StoredHashes = {Converted(th[t].k)}
        /\ th[t].k.type = "uint64" => StoredHashes = {th[t].k.val}

(* A negative int32 key has been stored. *)
C21_Witness ==
    \E t \in Threads :
      /\ Returned(t, "Set")
      /\ th[t].k.type = "int32" /\ th[t].k.val < 0
      /\ StoredHashes # {}


(* C22: only the hash identifies an entry.  When the last write to the     *)
(* hash of a Get's key was made under another key, the Get sees that       *)
(* write: the value of a live Set (so a Set under either key is read back  *)
(* under the other, the later one having overwritten the earlier), and     *)
(* nothing after a Delete; and a Delete leaves no entry under the hash.    *)
C22_HashIdentifies ==
    [][\A t \in Threads :
         LET h == HashOf(t)
         IN  /\ (GetRead(t) /\ h \in DOMAIN abs /\ abs[h].k # th[t].k) =>
                   /\ (abs[h].op = "Set" /\ SpecLive(abs[h].e, clock))
                         => th'[t].ret = Found(abs[h].v)
                   /\ abs[h].op = "Delete" => ~th'[t].ret.ok
             /\ DeleteEntry(t) => h \notin StoredHashes'
             /\ SetStore(t) =>
                   /\ StoredHashes' = StoredHashes \cup {h}
                   /\ Stored(h)'.Object = th[t].x]_vars

(* Get(uint64 2) has returned the value that Set(int 2, v) stored over the *)
(* entry of an earlier Set(uint64 2, w).                                   *)
C22_Witness ==
    \E t \in Threads :
      LET h == keyToHash(th[t].k, hashkey)
      IN  /\ Returned(t, "Get")
          /\ th[t].k = Key("uint64", 2)
          /\ th[t].ret = Found(2)
          /\ abs[h].k = Key("int", 2)
          /\ Key("uint64", 2) \in everSet


(* The calls that take a key. *)
KeyedCall(t, k) ==
    \/ \E x \in {NextValue}, d \in TTLs : SetCall(t, k, x, d) \/ AddCall(t, k, x, d)
    \/ GetCall(t, k)
    \/ DeleteCall(t, k)

(* C23: a Set, Get, Delete or Add with a key of an unsupported type panics *)
(* at once: it takes no lock and changes no entry of any shard, and no     *)
(* call that goes on to a shard carries such a key.                        *)
C23_FailFast ==
    /\ [][\A t \in Threads :
            KeyedCall(t, Unsupported) =>
              /\ th'[t] = Panicked(th'[t].op, Unsupported)
              /\ th'[t].op \in {"Set", "Get", "Delete", "Add"}
              /\ items' = items
              /\ mu' = mu]_vars
    /\ [](\A t \in Threads :
            /\ th[t].pc \notin {"idle", "done", "panicked"} => th[t].k # Unsupported
            /\ th[t].pc = "panicked" =>
                  \A i \in Shards : mu[i].w # t /\ t \notin mu[i].r)
    /\ [](\A h \in StoredHashes : h = keyToHash(Key("uint64", 2), hashkey))

(* A Set with an unsupported key has panicked beside a stored entry, and   *)
(* the entry is as the last Set under the supported key left it.           *)
C23_Witness ==
    \E t \in Threads :
      /\ th[t] = Panicked("Set", Unsupported)
      /\ calls = 2
      /\ StoredHashes = {2}
      /\ Stored(2) = Item(1, 2)


(* The goroutine is about to write l.time, or to read it. *)
WritesTime(t) == th[t].pc \in NowPcs /\ th[t].i = 1

ReadsTime(t) == th[t].pc \in NowPcs /\ th[t].i = 2

(* The goroutine holds the mutex exclusively, or shared. *)
HoldsLock(t) == plain.mu.w = t

HoldsRLock(t) == t \in plain.mu.r

(* C24: every shared variable is read or written under a lock that         *)
(* excludes conflicting accesses: the map is written by the holder of the  *)
(* exclusive lock and read by the holders of the shared lock, and no       *)
(* goroutine writes the cached time l.time of a cache made by NewLazy      *)
(* while another is writing or reading it.                                 *)
C24_NoConflictingAccess ==
    /\ \A t \in Threads :
         /\ th[t].pc \in {"PlainSetStore", "PlainSweepScan"} => HoldsLock(t)
         /\ th[t].pc = "PlainGetRead" => HoldsRLock(t)
         /\ HoldsLock(t) => plain.mu.r = {}
    /\ \A t \in Threads : \A u \in Threads \ {t} :
         WritesTime(t) => ~(WritesTime(u) \/ ReadsTime(u))


Sweeping(p) == th[p].pc \in {"SweepLock", "SweepScan"}

(* C25: DeleteExpired reads the clock once, when it is called and before   *)
(* its first lock, and scans every shard with that timestamp: the scan of  *)
(* a shard removes exactly the entries whose expiration is positive and    *)
(* below the timestamp, and keeps the others as they are, those that have  *)
(* expired since the timestamp included.                                   *)
C25_OneTimestamp ==
    [][\A t \in Threads :
         /\ DeleteExpiredCall(t) =>
               /\ th'[t].now = clock
               /\ th'[t].pc = "SweepLock" /\ th'[t].i = 0
               /\ mu' = mu
         /\ (Sweeping(t) /\ Sweeping(t)') => th'[t].now = th[t].now
         /\ SweepScan(t) =>
               LET i == th[t].i
                   gone == { h \in DOMAIN items[i] :
                               /\ items[i][h].Expiration > 0
                               /\ items[i][h].Expiration < th[t].now }
               IN  /\ DOMAIN items'[i] = (DOMAIN items[i]) \ gone
                   /\ \A h \in DOMAIN items'[i] : items'[i][h] = items[i][h]
                   /\ \A j \in Shards \ {i} : items'[j] = items[j]]_vars

(* A sweep has returned that kept an entry which expired after the sweep   *)
(* read the clock and before it scanned the entry's shard.                 *)
C25_Witness ==
    \E t \in Threads : \E h \in StoredHashes :
      /\ Returned(t, "DeleteExpired")
      /\ abs[h].op = "Set" /\ abs[h].sw = "kept"
      /\ Stored(h).Expiration > 0
      /\ th[t].now <= Stored(h).Expiration
      /\ Stored(h).Expiration < clock
      /\ th[t].now = 2 /\ clock = 3


(* C26: a sweep and a Set on one shard take turns under the shard's lock,  *)
(* and the scan of a shard removes no entry that a Get at that moment      *)
(* would find: an entry stored over an expired one after the sweep read    *)
(* the clock and before it locked the shard is kept.                       *)
C26_SweepKeepsLive ==
    /\ [](\A t \in Threads : \A u \in Threads \ {t} :
            ~(/\ th[t].pc = "SetStore"
              /\ th[u].pc = "SweepScan"
              /\ ShardOf(HashOf(t)) = th[u].i))
    /\ [][\A t \in Threads :
            SweepScan(t) =>
              \A h \in DOMAIN items[th[t].i] :
                \/ /\ GetResult(items[th[t].i], h, clock).ok
                   /\ h \in DOMAIN items'[th[t].i]
                   /\ items'[th[t].i][h] = items[th[t].i][h]
                \/ /\ ~GetResult(items[th[t].i], h, clock).ok
                   /\ ~LiveIn(abs, h, clock)]_vars

(* The one entry there was had expired when a sweep read the clock; a Set  *)
(* then stored a fresh entry over it, and the sweep scanned the shard and  *)
(* kept the fresh entry.                                                   *)
C26_Witness ==
    \E t \in Threads : \E h \in StoredHashes :
      /\ Returned(t, "DeleteExpired")
      /\ th[t].g.n = 1 /\ th[t].g.x = 1
      /\ StoredHashes = {h}
      /\ abs[h].op = "Set" /\ abs[h].sw = "kept" /\ abs[h].v = 3
      /\ GetResult(items[ShardOf(h)], h, clock).ok


(* The hashes of the keys of the run. *)
KeyHashes == { keyToHash(k, 0) : k \in TwoKeys }

ExpiredAt(h) == Present(h) /\ GetExpired(Stored(h), clock)

(* C27: while the janitor runs, a tick it receives starts a sweep, the     *)
(* sweep goes through every shard and returns to the select, and an entry  *)
(* whose expiration has passed is in the end removed (or overwritten, or   *)
(* the janitor has been stopped) with no caller calling DeleteExpired.     *)
C27_JanitorSweeps ==
    /\ [][JanitorTick => /\ th'[Janitor].pc = "SweepLock"
                         /\ th'[Janitor].i = 0
                         /\ th'[Janitor].now = clock]_vars
    /\ Sweeping(Janitor) ~> (th[Janitor].pc = "select")
    /\ \A h \in KeyHashes :
         ExpiredAt(h) ~> (~ExpiredAt(h) \/ th[Janitor].pc = "stopped")

(* The janitor's sweep has removed an expired entry while the janitor runs.*)
C27_Witness ==
    \E h \in KeyHashes :
      /\ h \in DOMAIN abs
      /\ abs[h].op = "Set" /\ abs[h].sw = "removed"
      /\ ~Present(h)
      /\ th[Janitor].pc = "select"
      /\ handle = "reachable"


(* A sweep of the janitor starts at the select by taking the pending tick, *)
(* and ends at the select after the last shard; the ticker alone sends a   *)
(* tick, and the start of a sweep alone takes it.                          *)
TicksTaken ==
    /\ (~Sweeping(Janitor) /\ Sweeping(Janitor)') =>
          /\ th[Janitor].pc = "select"
          /\ tickerC = 1 /\ tickerC' = 0
          /\ th'[Janitor].i = 0
    /\ (Sweeping(Janitor) /\ ~Sweeping(Janitor)') =>
          /\ th'[Janitor].pc = "select"
          /\ ~MoreShards(th[Janitor].i)
    /\ tickerC' > tickerC => (tickerOn /\ th' = th)
    /\ tickerC' < tickerC => (~Sweeping(Janitor) /\ Sweeping(Janitor)')

(* C28: ticks are not queued.  Only the one janitor goroutine runs         *)
(* janitor.Run; it starts a sweep only at its select, after the sweep      *)
(* before has returned, and by taking the one pending tick, so that it     *)
(* starts no more sweeps than ticks were sent; a tick is pending only      *)
(* because the ticker sent it, and at most one is pending, also while a    *)
(* sweep runs.                                                             *)
C28_NoBacklog ==
    /\ [](/\ tickerC \in {0, 1}
          /\ \A t \in Threads : th[t].pc \notin {"Run", "select", "stopped"}
          /\ th[Janitor].pc \in {"none", "Run", "select", "SweepLock", "SweepScan",
                                  "stopped"}
          /\ tickerC = 1 => cleanupInterval > 0)
    /\ [][TicksTaken]_vars

(* A tick is pending while the janitor is in the middle of a sweep. *)
C28_Witness ==
    /\ tickerC = 1
    /\ th[Janitor].pc = "SweepScan"
    /\ th[Janitor].i = 1


(* C29: in a cache made by NewLazy the cached time never runs ahead of the *)
(* clock, and an entry is evicted later than with the exact clock, never   *)
(* sooner: while no more than its ttl has passed on the clock since it was *)
(* Set, Get finds it and DeleteExpired keeps it.                           *)
C29_LazyNeverSooner ==
    /\ [](plain.time <= clock)
    /\ [][\A t \in Threads :
            /\ (PlainGetCheck(t) /\ LiveIn(plain.abs, HashOf(t), clock))
                  => th'[t].ret.ok
            /\ PlainSweepScan(t) =>
                  \A h \in DOMAIN plain.items :
                    LiveIn(plain.abs, h, clock) => h \in DOMAIN plain'.items]_vars

(***************************************************************************)
(* C30: a call of the unsharded cache that panics on an unsupported key    *)
(* leaves no lock held: the goroutine that panicked holds the mutex        *)
(* neither exclusively nor shared, so that the later calls of every        *)
(* goroutine can still acquire it.                                         *)
(***************************************************************************)
C30_PanicReleasesLock ==
    \A t \in Threads :
        th[t].pc = "panicked" => (~HoldsLock(t) /\ ~HoldsRLock(t))

(***************************************************************************)
(* C31 as stated: the value ItemCount returns is the number of entries     *)
(* the table held at one instant between the call and the return, whatever *)
(* Set, Delete and Flush do to the shards meanwhile.                       *)
(***************************************************************************)
C31_ConsistentSnapshot ==
    \A t \in Threads :
        Returned(t, "ItemCount") => th[t].ret.n \in th[t].g.tot

(* The sum an ItemCount has so far, returned or not. *)
CountedBy(r) == IF r.pc = "done" THEN r.ret.n ELSE r.n

(* C31: ItemCount adds up the shards one at a time, each shard's number of *)
(* entries read while the caller holds that shard's shared lock and no     *)
(* writer holds it; the value returned is the number of entries of the     *)
(* table at one instant when no entry was added or removed during the      *)
(* call.                                                                   *)
C31_ShardByShard ==
    /\ [][\A t \in Threads :
            CountAdd(t) =>
               /\ t \in mu[th[t].i].r
               /\ mu[th[t].i].w = None
               /\ CountedBy(th'[t]) = CountedBy(th[t]) + Count(items[th[t].i])]_vars
    /\ [](\A t \in Threads :
            (Returned(t, "ItemCount") /\ Cardinality(th[t].g.tot) = 1)
               => th[t].ret.n \in th[t].g.tot)

(* An ItemCount has returned after the number of entries changed during    *)
(* the call.                                                               *)
C31_Witness ==
    \E t \in Threads :
        /\ Returned(t, "ItemCount")
        /\ Cardinality(th[t].g.tot) >= 2


(***************************************************************************)
(* C32: Get and DeleteExpired decide expiry alike.  The scan of a shard    *)
(* with the sweep's timestamp removes exactly the entries a Get at that    *)
(* time would report not-found, and a Get reports a stored entry found     *)
(* exactly when a scan at the Get's time would keep it; an entry whose     *)
(* expiration equals the time is found and kept, and so is an entry whose  *)
(* expiration is 0 at every time.                                          *)
(***************************************************************************)
C32_SamePredicate ==
    [][\A t \in Threads :
         /\ SweepScan(t) =>
               \A h \in DOMAIN items[th[t].i] :
                  LET it == items[th[t].i][h]
                  IN  /\ (h \notin DOMAIN items'[th[t].i])
                            <=> ~GetResult(items[th[t].i], h, th[t].now).ok
                      /\ it.Expiration = th[t].now => h \in DOMAIN items'[th[t].i]
                      /\ it.Expiration = 0 => h \in DOMAIN items'[th[t].i]
         /\ (GetRead(t) /\ Present(HashOf(t))) =>
               LET it == Stored(HashOf(t))
               IN  /\ th'[t].ret.ok
                         <=> HashOf(t) \in DOMAIN Swept(items[ShardOf(HashOf(t))], clock)
                   /\ it.Expiration = clock => th'[t].ret.ok
                   /\ it.Expiration = 0 => th'[t].ret.ok]_vars

(* At the very time an entry expires a DeleteExpired has kept it and a     *)
(* Get has found it.                                                       *)
C32_Witness ==
    \E t \in Threads : \E u \in Threads \ {t} : \E h \in StoredHashes :
      /\ Returned(t, "DeleteExpired")
      /\ Returned(u, "Get")
      /\ HashOf(u) = h
      /\ th[u].ret.ok
      /\ Stored(h).Expiration > 0
      /\ th[t].now = Stored(h).Expiration
      /\ clock = Stored(h).Expiration

(* A sweep has removed an entry as expired, and a Get of its key has       *)
(* reported it not-found.                                                  *)
C32_BothExpired ==
    \E t \in Threads : \E u \in Threads \ {t} :
      /\ Returned(t, "DeleteExpired")
      /\ Returned(u, "Get")
      /\ ~th[u].ret.ok
      /\ HashOf(u) \in DOMAIN abs
      /\ abs[HashOf(u)].op = "Set"
      /\ abs[HashOf(u)].sw = "removed"


(***************************************************************************)
(* C33: for every positive ttl d, Set stores the expiration now + d (as a  *)
(* 64-bit word) and that expiration is later than the time of the call     *)
(* and is not the never-expires value: a positive ttl gives neither an     *)
(* entry that never expires nor one that has expired already, also when    *)
(* now + d is beyond the signed 64-bit range.                              *)
(***************************************************************************)
C33_PositiveTtlExpires ==
    [][\A t \in Threads :
         /\ (th[t].pc # "SetLock" /\ th'[t].pc = "SetLock" /\ th'[t].g.e > 0) =>
               /\ (th'[t].e - th'[t].g.e) % Mod = 0
               /\ th'[t].e > clock
         /\ (SetStore(t) /\ th[t].g.e > 0) =>
               LET it == items'[ShardOf(HashOf(t))][HashOf(t)]
               IN  /\ it.Expiration = th[t].e
                   /\ it.Expiration > 0
                   /\ \E now \in 1 .. Mod : GetExpired(it, now)
                   /\ \E now \in 1 .. Mod : SweepExpired(it, now)]_vars


====
